---- MODULE Spec2Model ----
(***************************************************************************)
(* Contact enrichment (tools/enrich_contacts.py): enrich_contact and the   *)
(* functions it calls, as a state machine.  Python strings are TLA+        *)
(* strings; a character is a string of length one.                         *)
(***************************************************************************)
EXTENDS Integers, Sequences, FiniteSets, TLC

(***************************************************************************)
(* Python values and string methods                                        *)
(***************************************************************************)

\* Python's None (a JSON null) where the code expects a string.
None == "<None>"

\* Python's None (a JSON null) where the code expects a number.
NoneInt == -1

\* x or '' : None and '' both give ''.
OrEmpty(x) == IF x = None THEN "" ELSE x

\* x or 0 : None and 0 both give 0.
OrZero(x) == IF x = NoneInt THEN 0 ELSE x

CharAt(s, i) == SubSeq(s, i, i)

IsSpace(c) == c \in {" ", "\t", "\n"}

\* the lower-case letter of each upper-case letter
ToLower ==
    [ A |-> "a", B |-> "b", C |-> "c", D |-> "d", E |-> "e", F |-> "f",
      G |-> "g", H |-> "h", I |-> "i", J |-> "j", K |-> "k", L |-> "l",
      M |-> "m", N |-> "n", O |-> "o", P |-> "p", Q |-> "q", R |-> "r",
      S |-> "s", T |-> "t", U |-> "u", V |-> "v", W |-> "w", X |-> "x",
      Y |-> "y", Z |-> "z" ]

\* the upper-case letter of each lower-case letter
ToUpper ==
    [ a |-> "A", b |-> "B", c |-> "C", d |-> "D", e |-> "E", f |-> "F",
      g |-> "G", h |-> "H", i |-> "I", j |-> "J", k |-> "K", l |-> "L",
      m |-> "M", n |-> "N", o |-> "O", p |-> "P", q |-> "Q", r |-> "R",
      s |-> "S", t |-> "T", u |-> "U", v |-> "V", w |-> "W", x |-> "X",
      y |-> "Y", z |-> "Z" ]

IsUpperChar(c) == c \in DOMAIN ToLower

IsLowerChar(c) == c \in DOMAIN ToUpper

IsLetter(c) == IsUpperChar(c) \/ IsLowerChar(c)

LowerChar(c) == IF IsUpperChar(c) THEN ToLower[c] ELSE c

UpperChar(c) == IF IsLowerChar(c) THEN ToUpper[c] ELSE c

RECURSIVE Lower(_)
\* str.lower()
Lower(s) == IF s = "" THEN "" ELSE LowerChar(Head(s)) \o Lower(Tail(s))

RECURSIVE Upper(_)
\* str.upper()
Upper(s) == IF s = "" THEN "" ELSE UpperChar(Head(s)) \o Upper(Tail(s))

RECURSIVE LStrip(_)
LStrip(s) == IF s # "" /\ IsSpace(Head(s)) THEN LStrip(Tail(s)) ELSE s

RECURSIVE RStrip(_)
RStrip(s) ==
    IF s # "" /\ IsSpace(CharAt(s, Len(s)))
    THEN RStrip(SubSeq(s, 1, Len(s) - 1))
    ELSE s

\* str.strip()
Strip(s) == LStrip(RStrip(s))

RECURSIVE RStripSlash(_)
\* str.rstrip('/')
RStripSlash(s) ==
    IF s # "" /\ CharAt(s, Len(s)) = "/"
    THEN RStripSlash(SubSeq(s, 1, Len(s) - 1))
    ELSE s

RECURSIVE LStripSlash(_)
\* str.lstrip('/')
LStripSlash(s) == IF s # "" /\ Head(s) = "/" THEN LStripSlash(Tail(s)) ELSE s

\* str.startswith(p)
StartsWith(s, p) == Len(s) >= Len(p) /\ SubSeq(s, 1, Len(p)) = p

\* str.endswith(p)
EndsWith(s, p) == Len(s) >= Len(p) /\ SubSeq(s, Len(s) - Len(p) + 1, Len(s)) = p

\* p in s
Contains(s, p) == \E i \in 1..(Len(s) - Len(p) + 1) : SubSeq(s, i, i + Len(p) - 1) = p

\* s[n:]
From(s, n) == SubSeq(s, n + 1, Len(s))

RECURSIVE SplitAcc(_, _, _)
SplitAcc(s, cur, acc) ==
    IF s = ""
    THEN IF cur = "" THEN acc ELSE Append(acc, cur)
    ELSE IF IsSpace(Head(s))
         THEN SplitAcc(Tail(s), "", IF cur = "" THEN acc ELSE Append(acc, cur))
         ELSE SplitAcc(Tail(s), cur \o Head(s), acc)

\* str.split() : the whitespace-separated tokens
Split(s) == SplitAcc(s, "", <<>>)

\* the first index of c in s, or 0
IndexOf(s, c) ==
    IF \E i \in 1..Len(s) : CharAt(s, i) = c
    THEN CHOOSE i \in 1..Len(s) : CharAt(s, i) = c /\ \A j \in 1..(i - 1) : CharAt(s, j) # c
    ELSE 0

(***************************************************************************)
(* Configuration tables of enrich_contacts.py                              *)
(***************************************************************************)

\* Title priority for selecting the best contact (lower index = higher priority)
TITLE_PRIORITY ==
    << "chief compliance officer", "cco",
       "principal", "managing member", "managing partner",
       "founder", "co-founder",
       "chief executive officer", "ceo",
       "president",
       "owner",
       "chief operating officer", "coo",
       "chief financial officer", "cfo",
       "director", "managing director",
       "partner",
       "advisor", "adviser" >>

\* the rank of a title that matches no entry of TITLE_PRIORITY
UnmatchedTitleRank == 999

\* the rank of a seniority that is not executive, senior or management
UnknownSeniorityRank == 5

(***************************************************************************)
(* Candidates and the Reconciler (_select_best_contact)                    *)
(***************************************************************************)

\* a candidate dict built by the scraper: the keys the scraper does not set
\* read as None / 0 through dict.get, which the code treats like '' / 0
ScrapedCandidate(name, email, title) ==
    [name |-> name, email |-> email, title |-> title, source |-> "website",
     confidence |-> 0, seniority |-> "", phone |-> "", linkedin |-> "",
     verified |-> ""]

empty == [name |-> "", email |-> "", title |-> "", phone |-> "", linkedin |-> ""]

\* ranks.get((seniority or '').lower(), 5)
_seniority_rank(seniority) ==
    LET s == Lower(OrEmpty(seniority))
    IN  CASE s = "executive" -> 0
          [] s = "senior" -> 1
          [] s = "management" -> 2
          [] OTHER -> UnknownSeniorityRank

\* the first index of TITLE_PRIORITY whose entry is a substring of the title
_title_rank(title) ==
    LET t == Strip(Lower(title))
        hits == {i \in 1..Len(TITLE_PRIORITY) : Contains(t, TITLE_PRIORITY[i])}
    IN  IF hits = {} THEN UnmatchedTitleRank
        ELSE (CHOOSE i \in hits : \A j \in hits : i <= j) - 1

\* the sort key of named.sort(key=...)
SortKey(c) ==
    << _title_rank(c.title),
       _seniority_rank(c.seniority),
       IF c.source = "hunter.io" THEN 0 ELSE 1,
       0 - OrZero(c.confidence) >>

\* tuple comparison k1 < k2 of Python, on keys of length 4
KeyLess(k1, k2) ==
    \E i \in 1..4 : k1[i] < k2[i] /\ \A j \in 1..(i - 1) : k1[j] = k2[j]

RECURSIVE InsertSorted(_, _)
\* insert the pair p of a key and its item after every pair whose key is not
\* greater: a stable insertion
InsertSorted(sorted, p) ==
    IF sorted = <<>> THEN << p >>
    ELSE IF KeyLess(p.key, Head(sorted).key)
         THEN << p >> \o sorted
         ELSE << Head(sorted) >> \o InsertSorted(Tail(sorted), p)

RECURSIVE SortDecorated(_)
\* the items of seq with their keys, in ascending order of the keys; the key
\* of an item is computed once, as list.sort(key=...) does
SortDecorated(seq) ==
    IF seq = <<>> THEN <<>>
    ELSE InsertSorted(SortDecorated(SubSeq(seq, 1, Len(seq) - 1)),
                      [key |-> SortKey(seq[Len(seq)]), item |-> seq[Len(seq)]])

\* list.sort(key=...): stable, ascending
StableSort(seq) ==
    LET decorated == SortDecorated(seq)
    IN  [i \in 1..Len(decorated) |-> decorated[i].item]

\* [c for c in candidates if c.get('name')]
NamedOf(candidates) == SelectSeq(candidates, LAMBDA c : c.name # "" /\ c.name # None)

\* best_named: named[0] after the sort, or NoCandidate
NoCandidate == [name |-> "", email |-> "", title |-> "", source |-> "",
                confidence |-> 0, seniority |-> "", phone |-> "", linkedin |-> "",
                verified |-> ""]

\* BestNamed taking the latest of the candidates equal on the sort key
BestNamed_LatestOfTies(candidates) ==
    LET named == NamedOf(candidates)
        reversed == [i \in 1..Len(named) |-> named[Len(named) + 1 - i]]
    IN  IF named = <<>> THEN NoCandidate ELSE Head(StableSort(reversed))

BestNamed(candidates) ==
    LET named == NamedOf(candidates)
    IN  IF named = <<>> THEN NoCandidate ELSE Head(StableSort(named))

HasBestNamed(candidates) == NamedOf(candidates) # <<>>

\* Upgrades for any later email when the current one is not verified
Upgrades_AnyLater(c, current) == current.verified # "valid"

\* `c.get('verified') == 'valid' and best_email_candidate.get('verified') != 'valid'`
Upgrades(c, current) == c.verified = "valid" /\ current.verified # "valid"

RECURSIVE EmailScan(_, _, _, _)
\* the loop `for c in candidates` that finds best_email, from index i on, with
\* the current best_email_candidate at index cur (0: None).  The result is
\* [idx: the index of best_email_candidate, raised: an AttributeError was raised]
EmailScan(candidates, best_named, i, cur) ==
    IF i > Len(candidates) THEN [idx |-> cur, raised |-> FALSE]
    ELSE LET c == candidates[i]
         IN  IF c.email = None THEN [idx |-> cur, raised |-> TRUE]
             ELSE IF Strip(c.email) = "" THEN EmailScan(candidates, best_named, i + 1, cur)
             ELSE IF best_named # NoCandidate /\ c.name = best_named.name
                  THEN [idx |-> i, raised |-> FALSE]
             ELSE IF cur = 0
                  THEN EmailScan(candidates, best_named, i + 1, i)
             ELSE IF Upgrades(c, candidates[cur])
                  THEN EmailScan(candidates, best_named, i + 1, i)
             ELSE EmailScan(candidates, best_named, i + 1, cur)

BestEmailIdx(candidates) == EmailScan(candidates, BestNamed(candidates), 1, 0)

BestEmail(candidates) ==
    LET r == BestEmailIdx(candidates)
    IN  IF r.idx = 0 THEN "" ELSE Strip(candidates[r.idx].email)

\* SupplementalOrder without the candidate of the best email in front
SupplementalOrder_ListOnly(candidates) ==
    (IF HasBestNamed(candidates) THEN << BestNamed(candidates) >> ELSE <<>>)
    \o candidates

\* [best_named, best_email_candidate] + candidates, without the None entries
SupplementalOrder(candidates) ==
    LET r == BestEmailIdx(candidates)
    IN  (IF HasBestNamed(candidates) THEN << BestNamed(candidates) >> ELSE <<>>)
        \o (IF r.idx = 0 THEN <<>> ELSE << candidates[r.idx] >>)
        \o candidates

RECURSIVE FirstNonEmpty(_, _)
\* the first truthy value of field f along the list, or ''
FirstNonEmpty(seq, f) ==
    IF seq = <<>> THEN ""
    ELSE IF Head(seq)[f] # "" /\ Head(seq)[f] # None THEN Head(seq)[f]
         ELSE FirstNonEmpty(Tail(seq), f)

\* an exception leaves _select_best_contact: str.strip() on a None email
SelectBestRaises(candidates) ==
    /\ candidates # <<>>
    /\ \/ BestEmailIdx(candidates).raised
       \/ HasBestNamed(candidates) /\ BestNamed(candidates).email = None

\* the dict _select_best_contact returns when it returns
_select_best_contact(candidates) ==
    IF candidates = <<>> THEN empty
    ELSE LET best_named == BestNamed(candidates)
             best_email == BestEmail(candidates)
             phone == FirstNonEmpty(SupplementalOrder(candidates), "phone")
             linkedin == FirstNonEmpty(SupplementalOrder(candidates), "linkedin")
         IN  IF HasBestNamed(candidates)
             THEN [name |-> Strip(best_named.name),
                   email |-> IF Strip(best_named.email) # "" THEN Strip(best_named.email)
                             ELSE best_email,
                   title |-> Strip(best_named.title),
                   phone |-> phone,
                   linkedin |-> linkedin]
             ELSE IF best_email # ""
             THEN [name |-> "", email |-> best_email, title |-> "",
                   phone |-> phone, linkedin |-> linkedin]
             ELSE empty

(***************************************************************************)
(* Domain canonicalization (extract_domain)                                *)
(***************************************************************************)

\* IsBlankWebsite that does not know the 'nan' of a missing cell
IsBlankWebsite_NoNan(website_url) ==
    \/ website_url = None
    \/ Strip(Lower(website_url)) \in {"", "none"}

\* not url or str(url).lower().strip() in ('nan', '', 'none')
IsBlankWebsite(website_url) ==
    \/ website_url = None
    \/ Strip(Lower(website_url)) \in {"nan", "", "none"}

\* the url the code works on: stripped, and 'https://' put in front of it
\* unless it starts with 'http'
NormalizedUrl(website_url) ==
    LET u == Strip(website_url)
    IN  IF StartsWith(u, "http") THEN u ELSE "https://" \o u

SchemeChars == "abcdefghijklmnopqrstuvwxyzABCDEFGHIJKLMNOPQRSTUVWXYZ0123456789+-."

IsSchemeChar(c) == \E i \in 1..Len(SchemeChars) : CharAt(SchemeChars, i) = c

\* the index of the first character of s that is one of the characters of
\* stops, or Len(s) + 1
FirstStop(s, stops) ==
    LET hit == {i \in 1..Len(s) : \E k \in 1..Len(stops) : CharAt(s, i) = CharAt(stops, k)}
    IN  IF hit = {} THEN Len(s) + 1 ELSE CHOOSE i \in hit : \A j \in hit : i <= j

\* urllib.parse.urlparse, for urls without brackets: scheme, netloc and path
urlparse(url) ==
    LET colon == IndexOf(url, ":")
        hasScheme == /\ colon > 1
                     /\ IsLetter(CharAt(url, 1))
                     /\ \A i \in 1..(colon - 1) : IsSchemeChar(CharAt(url, i))
        rest == IF hasScheme THEN From(url, colon) ELSE url
        hasNetloc == StartsWith(rest, "//")
        afterSlashes == From(rest, 2)
        stop == FirstStop(afterSlashes, "/?#")
        tail == IF hasNetloc THEN From(afterSlashes, stop - 1) ELSE rest
    IN  [scheme |-> IF hasScheme THEN Lower(SubSeq(url, 1, colon - 1)) ELSE "",
         netloc |-> IF hasNetloc THEN SubSeq(afterSlashes, 1, stop - 1) ELSE "",
         path |-> SubSeq(tail, 1, FirstStop(tail, "?#") - 1)]

\* str.removeprefix(p)
RemovePrefix(s, p) == IF StartsWith(s, p) THEN From(s, Len(p)) ELSE s

\* the bare domain of a website url, or None
\* extract_domain without the test of the dot
extract_domain_NoDotTest(website_url) ==
    IF IsBlankWebsite(website_url) THEN None
    ELSE LET parsed == urlparse(NormalizedUrl(website_url))
             first == SubSeq(parsed.path, 1, FirstStop(parsed.path, "/") - 1)
         IN  RemovePrefix(Lower(IF parsed.netloc # "" THEN parsed.netloc ELSE first),
                          "www.")

extract_domain(website_url) ==
    IF IsBlankWebsite(website_url) THEN None
    ELSE LET parsed == urlparse(NormalizedUrl(website_url))
             first == SubSeq(parsed.path, 1, FirstStop(parsed.path, "/") - 1)
             domain == RemovePrefix(Lower(IF parsed.netloc # "" THEN parsed.netloc ELSE first),
                                    "www.")
         IN  IF Contains(domain, ".") THEN domain ELSE None

(***************************************************************************)
(* Regular expressions (module re)                                         *)
(***************************************************************************)

SeqToSet(seq) == {seq[i] : i \in 1..Len(seq)}

\* A pattern is a tree; Ends(re, s, i) is the list of the positions where a
\* match of re that starts at position i of s can end, in the order in which
\* the backtracking matcher of re tries them (greedy quantifiers first, the
\* alternatives of | from left to right).  A pattern compiled with
\* re.IGNORECASE is written in lower case and applied to Lower(s).

Lit(s) == [t |-> "lit", s |-> s]

\* one character of the class S
In(S) == [t |-> "in", set |-> S]

Cat(parts) == [t |-> "cat", parts |-> parts]

Alt(alts) == [t |-> "alt", alts |-> alts]

\* r?
Opt(r) == [t |-> "opt", r |-> r]

\* r+
Plus(r) == [t |-> "plus", r |-> r]

\* r*
Star(r) == Opt(Plus(r))

\* ^
Bol == [t |-> "bol"]

\* $
Eol == [t |-> "eol"]

\* \b
WordBoundary == [t |-> "wb"]

UpperLetters == DOMAIN ToLower

LowerLetters == DOMAIN ToUpper

Letters == UpperLetters \cup LowerLetters

Digits == {"0", "1", "2", "3", "4", "5", "6", "7", "8", "9"}

\* \w
WordChars == Letters \cup Digits \cup {"_"}

\* \s
Spaces == {" ", "\t", "\n"}

\* \s+
Ws == Plus(In(Spaces))

\* \s*
OptWs == Star(In(Spaces))

IsWordAt(s, i) == i >= 1 /\ i <= Len(s) /\ CharAt(s, i) \in WordChars

RECURSIVE Ends(_, _, _)
RECURSIVE EndsCat(_, _, _, _)
RECURSIVE EndsCatOver(_, _, _, _, _)
RECURSIVE EndsAlt(_, _, _, _)
RECURSIVE EndsPlusOver(_, _, _, _, _)

Ends(re, s, i) ==
    CASE re.t = "lit" ->
           IF i + Len(re.s) - 1 <= Len(s) /\ SubSeq(s, i, i + Len(re.s) - 1) = re.s
           THEN << i + Len(re.s) >> ELSE << >>
      [] re.t = "in" ->
           IF i <= Len(s) /\ CharAt(s, i) \in re.set THEN << i + 1 >> ELSE << >>
      [] re.t = "cat" -> EndsCat(re.parts, 1, s, i)
      [] re.t = "alt" -> EndsAlt(re.alts, 1, s, i)
      [] re.t = "opt" -> Ends(re.r, s, i) \o << i >>
      [] re.t = "plus" -> EndsPlusOver(Ends(re.r, s, i), 1, re, s, i)
      [] re.t = "bol" -> IF i = 1 THEN << i >> ELSE << >>
      [] re.t = "eol" ->
           IF i = Len(s) + 1 \/ (i = Len(s) /\ CharAt(s, i) = "\n") THEN << i >> ELSE << >>
      [] re.t = "wb" -> IF IsWordAt(s, i - 1) # IsWordAt(s, i) THEN << i >> ELSE << >>

EndsCat(parts, k, s, i) ==
    IF k > Len(parts) THEN << i >>
    ELSE EndsCatOver(Ends(parts[k], s, i), 1, parts, k + 1, s)

EndsCatOver(ps, n, parts, k, s) ==
    IF n > Len(ps) THEN << >>
    ELSE EndsCat(parts, k, s, ps[n]) \o EndsCatOver(ps, n + 1, parts, k, s)

EndsAlt(alts, k, s, i) ==
    IF k > Len(alts) THEN << >>
    ELSE Ends(alts[k], s, i) \o EndsAlt(alts, k + 1, s, i)

EndsPlusOver(ps, n, re, s, i) ==
    IF n > Len(ps) THEN << >>
    ELSE (IF ps[n] > i THEN Ends(re, s, ps[n]) ELSE << >>) \o << ps[n] >>
         \o EndsPlusOver(ps, n + 1, re, s, i)

\* whether re matches at position i of s
MatchesAt(re, s, i) == Ends(re, s, i) # << >>

\* the least element of a set of positions, 0 if it is empty
MinOr0(S) == IF S = {} THEN 0 ELSE CHOOSE i \in S : \A j \in S : i <= j

\* es[n], 0 if n is 0
At0(es, n) == IF n = 0 THEN 0 ELSE es[n]

\* the first end of es, in its order, after which rest matches; 0 if none
FirstEndWhere(es, rest, s) ==
    At0(es, MinOr0({n \in 1..Len(es) : MatchesAt(rest, s, es[n])}))

\* the end of the match of `group rest` at position i that the matcher finds
GroupEnd(group, rest, s, i) == FirstEndWhere(Ends(group, s, i), rest, s)

\* the position where pattern.search(s) finds its match, 0 if there is none
SearchStart(re, s) == MinOr0({i \in 1..(Len(s) + 1) : MatchesAt(re, s, i)})

\* s[i:e], the text of a match or of a group, None if there is no match
Matched(s, i, e) == IF i = 0 \/ e = 0 THEN None ELSE SubSeq(s, i, e - 1)

(***************************************************************************)
(* EmailHarvester (_extract_emails_from_soup)                              *)
(***************************************************************************)

\* A fetched page (the BeautifulSoup object), by what the extraction reads:
\*   hrefs : the href values of the <a href=...> tags
\*   lines : the lines of the visible text, soup.get_text('\n').split('\n')
\*   cards : the elements that have a class attribute, in document order,
\*           each with its class and the lines first..last of its text

EXCLUDED_EMAIL_DOMAINS ==
    { "company.com", "domain.com", "email.com", "example.com", "finra.org",
      "sampleemail.com", "sec.gov", "yourcompany.com" }

EXCLUDED_EMAIL_PREFIXES ==
    { "admin@", "contact@", "general@", "hello@", "help@", "info@", "mail@",
      "marketing@", "no-reply@", "noreply@", "office@", "sales@", "support@",
      "webmaster@" }

\* email_domain.endswith((...)): file names that look like addresses
AssetSuffixes == {".png", ".jpg", ".gif", ".svg", ".css", ".js"}

\* the characters EMAIL_PATTERN admits, in code order: Python compares
\* strings by code point
Ascii == "%+-.0123456789@ABCDEFGHIJKLMNOPQRSTUVWXYZ_abcdefghijklmnopqrstuvwxyz"

Code(c) == CHOOSE i \in 1..Len(Ascii) : CharAt(Ascii, i) = c

RECURSIVE StrLess(_, _)
\* a < b on Python strings
StrLess(a, b) ==
    IF b = "" THEN FALSE
    ELSE IF a = "" THEN TRUE
    ELSE IF Head(a) = Head(b) THEN StrLess(Tail(a), Tail(b))
    ELSE Code(Head(a)) < Code(Head(b))

\* [a-zA-Z0-9._%+\-]
EmailLocalChars == Letters \cup Digits \cup {".", "_", "%", "+", "-"}

\* [a-zA-Z0-9.\-]
EmailDomainChars == Letters \cup Digits \cup {".", "-"}

EMAIL_PATTERN ==
    Cat(<< Plus(In(EmailLocalChars)), Lit("@"), Plus(In(EmailDomainChars)), Lit("."),
           In(Letters), Plus(In(Letters)) >>)

\* pattern.fullmatch(s)
FullMatch(re, s) ==
    LET es == Ends(re, s, 1)
    IN  \E n \in 1..Len(es) : es[n] = Len(s) + 1

RECURSIVE FindAllFrom(_, _, _)
\* the matches pattern.finditer(s) finds from position i on
FindAllFrom(re, s, i) ==
    IF i > Len(s) THEN {}
    ELSE IF ~MatchesAt(re, s, i) THEN FindAllFrom(re, s, i + 1)
    ELSE LET e == Head(Ends(re, s, i))
         IN  {SubSeq(s, i, e - 1)} \cup FindAllFrom(re, s, e)

\* the words of soup.get_text(separator=' ')
TextWords(soup) == UNION {SeqToSet(Split(soup.lines[i])) : i \in 1..Len(soup.lines)}

\* the matches of EMAIL_PATTERN.finditer(text): a match holds an @ and no
\* white space, so it lies within one word that holds an @
TextEmails(soup) ==
    UNION {FindAllFrom(EMAIL_PATTERN, w, 1) : w \in {x \in TextWords(soup) : Contains(x, "@")}}

RECURSIVE RemoveAll(_, _)
\* str.replace(p, '')
RemoveAll(s, p) ==
    IF s = "" THEN ""
    ELSE IF StartsWith(s, p) THEN RemoveAll(From(s, Len(p)), p)
    ELSE Head(s) \o RemoveAll(Tail(s), p)

\* the address of a mailto: link, as the code cleans it up
MailtoAddress(href) ==
    LET raw0 == Strip(SubSeq(href, 8, FirstStop(href, "?") - 1))
        raw == Strip(RemoveAll(RemoveAll(raw0, "%20"), "+"))
    IN  Lower(raw)

\* the set `found`: the mailto: addresses that match EMAIL_PATTERN and the
\* matches of EMAIL_PATTERN in the visible text, in lower case
FoundEmails(soup) ==
    {MailtoAddress(h) : h \in {x \in soup.hrefs :
                                  /\ StartsWith(Lower(x), "mailto:")
                                  /\ FullMatch(EMAIL_PATTERN, MailtoAddress(x))}}
    \cup {Lower(e) : e \in TextEmails(soup)}

\* email.split('@')[1] if '@' in email else ''
EmailDomainPart(email) ==
    LET at == IndexOf(email, "@")
        rest == From(email, at)
    IN  IF at = 0 THEN "" ELSE SubSeq(rest, 1, FirstStop(rest, "@") - 1)

\* email.split('@')[0]
EmailLocalPart(email) == SubSeq(email, 1, FirstStop(email, "@") - 1)

\* IsExcludedEmail without the test of the prefixes
IsExcludedEmail_DomainsOnly(email) ==
    \/ EmailDomainPart(email) \in EXCLUDED_EMAIL_DOMAINS
    \/ \E suffix \in AssetSuffixes : EndsWith(EmailDomainPart(email), suffix)

\* the three `continue` tests of the filter loop
IsExcludedEmail(email) ==
    \/ EmailDomainPart(email) \in EXCLUDED_EMAIL_DOMAINS
    \/ \E prefix \in EXCLUDED_EMAIL_PREFIXES : StartsWith(email, prefix)
    \/ \E suffix \in AssetSuffixes : EndsWith(EmailDomainPart(email), suffix)

\* FilteredEmails without the filter loop
FilteredEmails_Unfiltered(soup) == FoundEmails(soup)

FilteredEmails(soup) == {e \in FoundEmails(soup) : ~IsExcludedEmail(e)}

\* the key (0 if domain in e else 1, e) of the sort
EmailKeyLess(domain, a, b) ==
    LET ka == IF Contains(a, domain) THEN 0 ELSE 1
        kb == IF Contains(b, domain) THEN 0 ELSE 1
    IN  ka < kb \/ (ka = kb /\ StrLess(a, b))

RECURSIVE SortedEmails(_, _)
SortedEmails(S, domain) ==
    IF S = {} THEN <<>>
    ELSE LET m == CHOOSE x \in S : \A y \in S \ {x} : EmailKeyLess(domain, x, y)
         IN  << m >> \o SortedEmails(S \ {m}, domain)

RECURSIVE Orderings(_)
\* every order in which the elements of a set can be iterated
Orderings(S) ==
    IF S = {} THEN {<<>>}
    ELSE UNION {{<< x >> \o t : t \in Orderings(S \ {x})} : x \in S}

\* the lists _extract_emails_from_soup can return: `filtered` is built by
\* iterating a set, and is sorted only when there is a domain
_extract_emails_from_soup(soup, domain) ==
    IF domain # None THEN {SortedEmails(FilteredEmails(soup), domain)}
    ELSE Orderings(FilteredEmails(soup))

(***************************************************************************)
(* NameValidator (_is_valid_person_name)                                   *)
(***************************************************************************)

CORP_WORDS ==
    { "AND", "CORP", "GROUP", "INC", "LLC", "LLP", "LP", "LTD", "THE" }

FALSE_NAME_WORDS ==
    { "ABOUT", "ACCOUNT", "ACCOUNTS", "ADVANCED", "ADVISERS", "ADVISORS",
      "ADVISORY", "ARE", "ASSET", "ASSETS", "BACK", "BANKING", "BANKS",
      "BASIC", "BEST", "BOND", "BONDS", "BROKERAGE", "CAPITAL", "CASH",
      "CHECKING", "COMPLIANCE", "CONTACT", "CREDIT", "DEBIT", "DEPOSIT",
      "DETAILS", "EQUITY", "FINANCIAL", "FIRM", "FUND", "FUNDS", "GET",
      "HELP", "HIGH", "HOME", "HOW", "INCOME", "INSURANCE", "INTEREST",
      "INVESTMENT", "INVESTMENTS", "LEARN", "LOAN", "LOW", "MANAGEMENT",
      "MARKET", "MARKETS", "MEET", "MORE", "MORTGAGE", "NET", "NEXT", "OUR",
      "PERFORMANCE", "PLANNING", "POLICY", "PORTFOLIO", "PREMIER", "PREMIUM",
      "PRIVACY", "PROGRAM", "RATE", "RATES", "READY", "REGISTERED", "REPORT",
      "RESERVE", "RETIREMENT", "RETURNS", "SAVINGS", "SECURITIES", "SELECT",
      "SERVICES", "STANDARD", "STARTED", "SUPPORT", "TERMS", "TRADING",
      "TRUST", "VIEW", "WE", "WEALTH", "WHAT", "WHO", "WHY", "WITH", "WORK",
      "WORTH", "YIELD", "YOUR" }

MinNameLen == 4

MaxNameLen == 50

_is_valid_person_name(name) ==
    /\ name # ""
    /\ Len(name) >= MinNameLen
    /\ Len(name) <= MaxNameLen
    /\ LET name_words == SeqToSet(Split(Upper(name)))
       IN  /\ Len(Split(Upper(name))) >= 2
           /\ name_words \cap CORP_WORDS = {}
           /\ name_words \cap FALSE_NAME_WORDS = {}

(***************************************************************************)
(* CandidateExtractor (_extract_contacts_from_soup)                        *)
(***************************************************************************)

\* a\s+b
Words2(a, b) == Cat(<< Lit(a), Ws, Lit(b) >>)

\* (?:chief\s+)?(?:compliance\s+officer|executive\s+officer|operating\s+officer|financial\s+officer)
OfficerTitle ==
    Cat(<< Opt(Cat(<< Lit("chief"), Ws >>)),
           Alt(<< Words2("compliance", "officer"), Words2("executive", "officer"),
                  Words2("operating", "officer"), Words2("financial", "officer") >>) >>)

\* managing\s+(?:member|partner|director)
ManagingTitle ==
    Cat(<< Lit("managing"), Ws, Alt(<< Lit("member"), Lit("partner"), Lit("director") >>) >>)

\* head\s+of\s+\w+(?:\s+\w+)?
HeadOfTitle ==
    Cat(<< Lit("head"), Ws, Lit("of"), Ws, Plus(In(WordChars)),
           Opt(Cat(<< Ws, Plus(In(WordChars)) >>)) >>)

\* the first title of STANDALONE_TITLE_PATTERN
FirstTitle ==
    Alt(<< OfficerTitle, Lit("cco"), Lit("ceo"), Lit("coo"), Lit("cfo"), Lit("principal"),
           ManagingTitle,
           Cat(<< Lit("founder"),
                  Opt(Cat(<< OptWs, In({"&", "+"}), OptWs,
                             Alt(<< Words2("managing", "partner"), Lit("ceo"),
                                    Lit("president") >>) >>)) >>),
           Lit("co-founder"), Lit("president"), Lit("owner"), Lit("partner"),
           Lit("director"),
           Cat(<< Opt(Cat(<< Lit("senior"), Ws >>)),
                  Alt(<< Lit("advisor"), Lit("adviser") >>) >>),
           HeadOfTitle, Words2("portfolio", "manager") >>)

\* the titles that can follow the first one after & + , or /
FurtherTitle ==
    Alt(<< OfficerTitle, Lit("cco"), Lit("ceo"), Lit("coo"), Lit("cfo"), Lit("principal"),
           ManagingTitle, Lit("founder"), Lit("president"), Lit("owner"), Lit("partner"),
           Lit("director"), HeadOfTitle, Words2("portfolio", "manager") >>)

\* compiled with re.IGNORECASE
STANDALONE_TITLE_PATTERN ==
    Cat(<< Bol, OptWs, FirstTitle,
           Star(Cat(<< OptWs, In({"&", "+", ",", "/"}), OptWs, FurtherTitle >>)),
           OptWs, Eol >>)

\* STANDALONE_TITLE_PATTERN.match(line)
IsStandaloneTitle(line) == MatchesAt(STANDALONE_TITLE_PATTERN, Lower(line), 1)

\* [A-Z][a-z]+
CapWord == Cat(<< In(UpperLetters), Plus(In(LowerLetters)) >>)

\* [A-Z][a-z]+(?:\s+[A-Z]\.?)?\s+[A-Z][a-z]+(?:\s+[A-Z][a-z]+)?
\* group 1 of BIO_NAME_PATTERN and of NAME_PATTERN
NameGroup ==
    Cat(<< CapWord, Opt(Cat(<< Ws, In(UpperLetters), Opt(Lit(".")) >>)), Ws, CapWord,
           Opt(Cat(<< Ws, CapWord >>)) >>)

\* \s+verb\b
VerbCue(verb) == Cat(<< Ws, Lit(verb), WordBoundary >>)

\* \s+verbs?\b
VerbsCue(verb) == Cat(<< Ws, Lit(verb), Opt(Lit("s")), WordBoundary >>)

\* the bio-opening cues of BIO_NAME_PATTERN; the two cues with an en dash
\* and an em dash are left out: the strings of the model are ASCII
BioCue ==
    Alt(<< VerbCue("is"), VerbCue("has"), VerbCue("joined"), VerbsCue("serve"),
           VerbsCue("lead"), VerbsCue("bring"), VerbCue("founded"), VerbsCue("manage"),
           VerbsCue("oversee"), Cat(<< Lit(","), In(Spaces) >>),
           Cat(<< Ws, Lit("(") >>) >>)

\* BIO_NAME_PATTERN.match(line).group(1), or None
BioName(line) == Matched(line, 1, GroupEnd(NameGroup, BioCue, line, 1))

\* NAME_PATTERN.match(line).group(1), or None
NameAtStart(line) ==
    IF MatchesAt(WordBoundary, line, 1)
    THEN Matched(line, 1, GroupEnd(NameGroup, WordBoundary, line, 1))
    ELSE None

\* group 1 of the match of NAME_PATTERN that starts at position i
NameFrom(text, i) ==
    IF i = 0 THEN None ELSE Matched(text, i, GroupEnd(NameGroup, WordBoundary, text, i))

\* NAME_PATTERN.findall(text)[0], or None
FirstName(text) ==
    NameFrom(text, SearchStart(Cat(<< WordBoundary, NameGroup, WordBoundary >>), text))

\* compiled with re.IGNORECASE
TITLE_SEARCH_PATTERN ==
    Alt(<< Lit("chief compliance officer"), Lit("cco"), Lit("principal"),
           Lit("managing member"), Lit("managing partner"), Lit("founder"),
           Lit("co-founder"), Lit("ceo"), Lit("president"), Lit("owner"),
           Lit("chief executive"), Lit("chief operating"), Lit("chief financial"),
           Lit("partner"), Lit("director"), Lit("managing director"), Lit("advisor"),
           Lit("adviser") >>)

\* the match of TITLE_SEARCH_PATTERN that starts at position i
TitleFromPosition(text, i) ==
    IF i = 0 THEN None
    ELSE Matched(text, i, Head(Ends(TITLE_SEARCH_PATTERN, Lower(text), i)))

\* TITLE_SEARCH_PATTERN.findall(text)[0], or None
FirstTitleIn(text) == TitleFromPosition(text, SearchStart(TITLE_SEARCH_PATTERN, Lower(text)))

\* [A-Z][a-z]+ under re.IGNORECASE
AnyCaseWord == Cat(<< In(LowerLetters), Plus(In(LowerLetters)) >>)

\* group 1 of same_line_pattern
SameLineName ==
    Cat(<< AnyCaseWord, Opt(Cat(<< Ws, In(LowerLetters), Opt(Lit(".")) >>)), Ws,
           AnyCaseWord >>)

\* SameLineSeparator with the comma alone
SameLineSeparator_CommaOnly == Cat(<< OptWs, In({","}), OptWs >>)

\* \s*[,|\-]\s* ; the en dash and the em dash of the class are left out: the
\* strings of the model are ASCII
SameLineSeparator == Cat(<< OptWs, In({",", "|", "-"}), OptWs >>)

\* group 2 of same_line_pattern
SameLineTitle ==
    Cat(<< Opt(Cat(<< Lit("chief"), Ws >>)),
           Alt(<< Words2("compliance", "officer"), Lit("cco"), Lit("principal"),
                  ManagingTitle, Lit("founder"), Lit("co-founder"), Lit("ceo"),
                  Lit("president"), Lit("owner"), Lit("coo"), Lit("cfo"), Lit("partner"),
                  Lit("director"), Words2("chief", "executive"),
                  Words2("chief", "operating"), Words2("chief", "financial"),
                  Lit("advisor"), Lit("adviser") >>) >>)

\* compiled with re.IGNORECASE
same_line_pattern ==
    Cat(<< WordBoundary, SameLineName, SameLineSeparator, SameLineTitle >>)

NoMatch == [name |-> None, title |-> None]

\* group 2, which starts at titleStart
SameLineGroup2(line, low, titleStart) ==
    Matched(line, titleStart, Head(Ends(SameLineTitle, low, titleStart)))

\* groups 1 and 2 of the match that starts at i, group 1 ending at nameEnd
SameLineGroups(line, low, i, nameEnd) ==
    [name |-> Matched(line, i, nameEnd),
     title |-> SameLineGroup2(line, low,
                              GroupEnd(SameLineSeparator, SameLineTitle, low, nameEnd))]

\* groups 1 and 2 of the match of same_line_pattern that starts at i
SameLineMatchAt(line, low, i) ==
    IF i = 0 THEN NoMatch
    ELSE SameLineGroups(line, low, i,
                        GroupEnd(SameLineName,
                                 Cat(<< SameLineSeparator, SameLineTitle >>), low, i))

\* groups 1 and 2 of same_line_pattern.search(line), or NoMatch
SameLineMatch(line) ==
    SameLineMatchAt(line, Lower(line), SearchStart(same_line_pattern, Lower(line)))

RECURSIVE TitleFrom(_, _)
TitleFrom(s, afterLetter) ==
    IF s = "" THEN ""
    ELSE (IF afterLetter THEN LowerChar(Head(s)) ELSE UpperChar(Head(s)))
         \o TitleFrom(Tail(s), IsLetter(Head(s)))

\* str.title()
TitleCase(s) == TitleFrom(s, FALSE)

\* how many harvested emails become nameless candidates
MaxNamelessEmails == 3

\* the longest line Strategy A and Strategy C take for a title line
TitleMaxLen == 80

\* the 10 of range(i + 1, min(i + 10, len(stripped)))
LookAhead == 10

\* the 10 of cards[:10]
MaxCards == 10

\* text_content.split('\n'), each line stripped
StrippedLines(soup) == [i \in 1..Len(soup.lines) |-> Strip(soup.lines[i])]

RECURSIVE ConcatAll(_)
\* the concatenation of a list of lists
ConcatAll(seqs) == IF seqs = << >> THEN << >> ELSE Head(seqs) \o ConcatAll(Tail(seqs))

\* NamedContact without the test of the name
NamedContact_Unvalidated(name, title) ==
    IF name = None THEN << >>
    ELSE << ScrapedCandidate(Strip(name), "", TitleCase(Strip(title))) >>

\* the contact appended for a captured name and title: nothing when there is
\* no name or _is_valid_person_name rejects it
NamedContact(name, title) ==
    IF name = None THEN << >>
    ELSE IF ~_is_valid_person_name(Strip(name)) THEN << >>
    ELSE << ScrapedCandidate(Strip(name), "", TitleCase(Strip(title))) >>

\* the first non-empty line among those range(i + 1, min(i + 10, len(stripped)))
\* covers, 0 if they are all empty
NextNonBlank(stripped, i) ==
    MinOr0({j \in (i + 1)..(IF i + LookAhead - 1 < Len(stripped) THEN i + LookAhead - 1
                            ELSE Len(stripped)) : stripped[j] # ""})

\* the contact of the title when the name opens line j
BioContact(stripped, j, title) ==
    IF j = 0 THEN << >> ELSE NamedContact(BioName(stripped[j]), title)

\* what Strategy A appends for line i: nothing, or one contact
TitleLineContact(stripped, i) ==
    IF \/ stripped[i] = ""
       \/ Len(stripped[i]) > TitleMaxLen
       \/ ~IsStandaloneTitle(stripped[i])
    THEN << >>
    ELSE BioContact(stripped, NextNonBlank(stripped, i), stripped[i])

\* Strategy A: a title on a line of its own, the name opens the next
\* non-empty line
StrategyA(stripped) ==
    ConcatAll([i \in 1..Len(stripped) |-> TitleLineContact(stripped, i)])

\* the contact of the groups of a match
MatchContact(match) == NamedContact(match.name, match.title)

\* what Strategy B appends for one line: nothing, or one contact
SameLineContact(line) == MatchContact(SameLineMatch(line))

\* Strategy B: "Name, Title" or "Name - Title" on one line
StrategyB(stripped) ==
    ConcatAll([i \in 1..Len(stripped) |-> SameLineContact(stripped[i])])

\* the selectors of Strategy C: [class*="team"], ...
CardSelectors == << "team", "staff", "bio", "member", "advisor", "person", "profile" >>

RECURSIVE JoinLines(_)
\* '\n'.join(lines)
JoinLines(lines) ==
    IF lines = << >> THEN ""
    ELSE IF Len(lines) = 1 THEN lines[1]
    ELSE lines[1] \o "\n" \o JoinLines(Tail(lines))

\* card.get_text(separator='\n')
CardText(soup, card) == JoinLines(SubSeq(soup.lines, card.first, card.last))

\* [cl.strip() for cl in card_text.split('\n') if cl.strip()]
CardLines(soup, card) ==
    SelectSeq([i \in 1..(card.last - card.first + 1) |-> Strip(soup.lines[card.first + i - 1])],
              LAMBDA cl : cl # "")

\* soup.select('[class*="sel"]')[:10]
SelectedCards(soup, sel) ==
    LET cards == SelectSeq(soup.cards, LAMBDA card : Contains(card.class, sel))
    IN  SubSeq(cards, 1, IF Len(cards) < MaxCards THEN Len(cards) ELSE MaxCards)

\* the offsets [-1, 1, -2, 2] at which a name is looked for around a title line
NameOffsets == << -1, 1, -2, 2 >>

\* the first title line of the card, 0 if it has none
CardTitleIndex(card_lines) ==
    MinOr0({ci \in 1..Len(card_lines) :
               Len(card_lines[ci]) <= TitleMaxLen /\ IsStandaloneTitle(card_lines[ci])})

\* name_match and _is_valid_person_name(name_match.group(1))
IsPersonName(name) == name # None /\ _is_valid_person_name(name)

\* the first of the offsets at which a line of the card opens with a name,
\* 0 if there is none
NameOffsetIndex(card_lines, ci) ==
    MinOr0({k \in 1..Len(NameOffsets) :
               /\ ci + NameOffsets[k] >= 1
               /\ ci + NameOffsets[k] <= Len(card_lines)
               /\ IsPersonName(NameAtStart(card_lines[ci + NameOffsets[k]]))})

\* the contact of the title line ci and of the name at offset k
NearbyNameContact(card_lines, ci, k) ==
    IF k = 0 THEN << >>
    ELSE NamedContact(NameAtStart(card_lines[ci + NameOffsets[k]]), card_lines[ci])

\* the contact of the title line ci
TitleContactAt(card_lines, ci) ==
    IF ci = 0 THEN << >>
    ELSE NearbyNameContact(card_lines, ci, NameOffsetIndex(card_lines, ci))

\* the first half of the loop body: the first title line of the card and a
\* name on a line next to it; appended whatever `contacts` holds
CardTitleContact(card_lines) == TitleContactAt(card_lines, CardTitleIndex(card_lines))

\* the contact of a name and a title, unless a contact has that name
NewContact(name, title, contacts) ==
    IF name = None \/ title = None THEN << >>
    ELSE IF \E i \in 1..Len(contacts) : contacts[i].name = Strip(name) THEN << >>
    ELSE NamedContact(name, title)

\* the second half of the loop body: the first name and the first title of
\* the card text, unless a contact of that name is in `contacts`
CardTextContact(card_text, contacts) ==
    NewContact(FirstName(card_text), FirstTitleIn(card_text), contacts)

\* `contacts` with what the second half of the loop body appends
WithCardText(contacts, card_text) == contacts \o CardTextContact(card_text, contacts)

\* `contacts` after the loop body has run for one card
AfterCard(soup, card, contacts) ==
    WithCardText(contacts \o CardTitleContact(CardLines(soup, card)), CardText(soup, card))

RECURSIVE AfterCards(_, _, _)
AfterCards(soup, cards, contacts) ==
    IF cards = << >> THEN contacts
    ELSE AfterCards(soup, Tail(cards), AfterCard(soup, Head(cards), contacts))

RECURSIVE AfterSelectors(_, _, _)
AfterSelectors(soup, selectors, contacts) ==
    IF selectors = << >> THEN contacts
    ELSE AfterSelectors(soup, Tail(selectors),
                        AfterCards(soup, SelectedCards(soup, Head(selectors)), contacts))

\* Strategy C: `contacts` after the loop over the selectors and their cards
StrategyC(soup, contacts) == AfterSelectors(soup, CardSelectors, contacts)

\* the contacts appended by the three strategies
StrategyContacts(soup) ==
    StrategyC(soup, StrategyA(StrippedLines(soup)) \o StrategyB(StrippedLines(soup)))

\* any(part in local for part in parts if len(part) > 2)
NameMatchesEmail(name, email) ==
    LET parts == Split(Lower(name))
        local == Lower(EmailLocalPart(email))
    IN  \E i \in 1..Len(parts) : Len(parts[i]) > 2 /\ Contains(local, parts[i])

\* AssignedEmail that gives the first email of the list to every contact
AssignedEmail_FirstEmail(contact, emails) ==
    IF contact.email # "" \/ emails = << >> THEN contact.email ELSE emails[1]

\* the first email of the list that matches the name of the contact, or ''
AssignedEmail(contact, emails) ==
    LET hits == {i \in 1..Len(emails) : NameMatchesEmail(contact.name, emails[i])}
    IN  IF contact.email # "" \/ hits = {} THEN contact.email
        ELSE emails[CHOOSE i \in hits : \A j \in hits : i <= j]

\* `contacts` after the emails are assigned, or the nameless contacts of the
\* first emails when `contacts` is empty
WithEmails(contacts, emails) ==
    IF contacts # <<>>
    THEN [i \in 1..Len(contacts) |->
             [contacts[i] EXCEPT !.email = AssignedEmail(contacts[i], emails)]]
    ELSE [i \in 1..(IF Len(emails) < MaxNamelessEmails THEN Len(emails)
                    ELSE MaxNamelessEmails) |->
             ScrapedCandidate("", emails[i], "")]

\* the contacts of one page, given the list the harvest returned
ContactsOf(soup, emails) == WithEmails(StrategyContacts(soup), emails)

\* the lists _extract_contacts_from_soup can return for a page
_extract_contacts_from_soup(soup, domain) ==
    {ContactsOf(soup, emails) : emails \in _extract_emails_from_soup(soup, domain)}

(***************************************************************************)
(* The cache of scores and contacts (cache_db)                             *)
(***************************************************************************)

\* The table ria_cache is a function from the crd of each row to the row; a
\* NULL column is None, a NULL timestamp is NoneInt.  The timestamp of a save
\* is the number of the save.

\* a key that a record passed to save_enrichments does not have
Missing == "<missing>"

\* the row an INSERT creates before its columns are set
NullRow(crd) ==
    [crd |-> crd, company |-> None, website |-> None, fit_score |-> None,
     fit_reasons |-> None, scored_at |-> NoneInt, contact_name |-> None,
     contact_email |-> None, contact_title |-> None, enriched_at |-> NoneInt,
     contact_phone |-> None, contact_linkedin |-> None]

\* the row of crd, or the row an INSERT would create
RowOf(table, crd) == IF crd \in DOMAIN table THEN table[crd] ELSE NullRow(crd)

\* the table with the row of crd set to row
WithRow(table, crd, row) ==
    [c \in DOMAIN table \cup {crd} |-> IF c = crd THEN row ELSE table[c]]

\* save_scores with INSERT OR REPLACE: the row is built anew
UpsertScore_Replace(table, r, now) ==
    WithRow(table, r.crd,
            [NullRow(r.crd) EXCEPT !.company = r.company, !.website = r.website,
                                   !.fit_score = r.fit_score,
                                   !.fit_reasons = r.fit_reasons, !.scored_at = now])

\* INSERT INTO ria_cache (crd, company, website, fit_score, fit_reasons,
\* scored_at) ... ON CONFLICT(crd) DO UPDATE SET the same columns
UpsertScore(table, r, now) ==
    WithRow(table, r.crd,
            [RowOf(table, r.crd) EXCEPT !.company = r.company, !.website = r.website,
                                        !.fit_score = r.fit_score,
                                        !.fit_reasons = r.fit_reasons, !.scored_at = now])

RECURSIVE ExecuteManyScores(_, _, _)
\* conn.executemany over the records, in order
ExecuteManyScores(table, records, now) ==
    IF records = << >> THEN table
    ELSE ExecuteManyScores(UpsertScore(table, Head(records), now), Tail(records), now)

\* save_scores(records): the table after the call
save_scores(table, records, now) ==
    IF records = << >> THEN table ELSE ExecuteManyScores(table, records, now)

\* {'contact_phone': '', 'contact_linkedin': '', **r}
WithDefaults(r) ==
    [r EXCEPT !.contact_phone = IF @ = Missing THEN "" ELSE @,
              !.contact_linkedin = IF @ = Missing THEN "" ELSE @]

\* INSERT INTO ria_cache (crd, contact_name, contact_email, contact_title,
\* contact_phone, contact_linkedin, enriched_at) ... ON CONFLICT(crd) DO
\* UPDATE SET the same columns
UpsertEnrichment(table, r, now) ==
    WithRow(table, r.crd,
            [RowOf(table, r.crd) EXCEPT !.contact_name = r.contact_name,
                                        !.contact_email = r.contact_email,
                                        !.contact_title = r.contact_title,
                                        !.contact_phone = r.contact_phone,
                                        !.contact_linkedin = r.contact_linkedin,
                                        !.enriched_at = now])

RECURSIVE ExecuteManyEnrichments(_, _, _)
\* conn.executemany over the records with their defaults, in order
ExecuteManyEnrichments(table, records, now) ==
    IF records = << >> THEN table
    ELSE ExecuteManyEnrichments(UpsertEnrichment(table, WithDefaults(Head(records)), now),
                                Tail(records), now)

\* save_enrichments(records): the table after the call
save_enrichments(table, records, now) ==
    IF records = << >> THEN table ELSE ExecuteManyEnrichments(table, records, now)

\* lookup_scores(crd_list): the rows of the list that have scored_at; the
\* lists of the model are shorter than a chunk of 500
lookup_scores(table, crd_list) ==
    IF crd_list = << >> THEN << >>
    ELSE [crd \in {c \in SeqToSet(crd_list) \cap DOMAIN table :
                      table[c].scored_at # NoneInt} |->
             [fit_score |-> table[crd].fit_score,
              fit_reasons |-> OrEmpty(table[crd].fit_reasons)]]

\* lookup_enrichments(crd_list): the rows of the list that have enriched_at
lookup_enrichments(table, crd_list) ==
    IF crd_list = << >> THEN << >>
    ELSE [crd \in {c \in SeqToSet(crd_list) \cap DOMAIN table :
                      table[c].enriched_at # NoneInt} |->
             [contact_name |-> table[crd].contact_name,
              contact_email |-> table[crd].contact_email,
              contact_title |-> table[crd].contact_title,
              contact_phone |-> OrEmpty(table[crd].contact_phone),
              contact_linkedin |-> OrEmpty(table[crd].contact_linkedin)]]

(***************************************************************************)
(* State of one enrich_contact call and of its environment                 *)
(***************************************************************************)

VARIABLES
    website_url,         \* argument: the firm's website
    hunter_api_key,      \* argument: the directory credential, or None
    site,                \* environment: the page each url answers with (200)
    pc,                  \* the position of the call
    domain,              \* enrich_contact: domain
    all_candidates,      \* enrich_contact: all_candidates
    best,                \* enrich_contact: best
    found,               \* enrich_contact: found
    url,                 \* _scrape_website_contacts: url
    scrape_domain,       \* _scrape_website_contacts: domain
    fetched_urls,        \* _scrape_website_contacts: fetched_urls
    discovered_subpages, \* _scrape_website_contacts: discovered_subpages
    visited,             \* the elements of discovered_subpages the loop has taken
    subpage_count,       \* _scrape_website_contacts: subpage_count
    all_contacts,        \* _scrape_website_contacts: all_contacts
    search_requests,     \* network: domain-search requests sent
    home_requests,       \* network: the homepage urls requested, in order
    sub_requests,        \* network: the subpage urls requested
    sub_request_count,   \* network: how many subpage requests were sent
    finder_requests,     \* network: the email-finder requests sent, in order
    search_response,     \* network: the response to the domain-search request
    finder_response,     \* network: the response to the email-finder request
    extractions,         \* how many times _extract_contacts_from_soup was called
    page_soup,           \* _extract_contacts_from_soup: soup
    page_domain,         \* _extract_contacts_from_soup: domain
    page_emails,         \* _extract_contacts_from_soup: emails
    page_strategy,       \* what each of the three strategies appended to contacts
    page_contacts,       \* _extract_contacts_from_soup: contacts
    ria_cache,           \* cache_db: the table ria_cache
    cache_clock,         \* cache_db: how many batches were saved
    cache_op,            \* cache_db: the function called last
    cache_request,       \* cache_db: the crd_list of the lookup called last
    cache_result,        \* cache_db: what the lookup called last returned
    saved_scores,        \* the score saved last for each crd
    saved_enrichments,   \* the contact fields saved last for each crd
    df,                  \* app.py: the rows of the listing
    cached_scores,       \* app.py: cached_scores
    cached_enrichments,  \* app.py: cached_enrichments
    new_indices,         \* app.py: new_indices
    position,            \* app.py: how many rows of new_indices are done
    new_score_records,   \* app.py: new_score_records
    new_enrich_records,  \* app.py: new_enrich_records
    run_count,           \* how many discovery runs were started
    call_number,         \* which of two calls of enrich_contact is running
    parked,              \* the variables of the call that is not running
    calls,               \* per call: its arguments, its responses, its outcome
    stage                \* whether the calls run one after the other or together

vars == << website_url, hunter_api_key, site, pc, domain, all_candidates, best,
           found, url, scrape_domain, fetched_urls, discovered_subpages, visited, subpage_count,
           all_contacts, search_requests, home_requests, sub_requests,
           sub_request_count, finder_requests, search_response, finder_response,
           extractions, page_soup, page_domain, page_emails, page_strategy,
           page_contacts, ria_cache, cache_clock, cache_op, cache_request, cache_result,
           saved_scores, saved_enrichments, df, cached_scores, cached_enrichments,
           new_indices, position, new_score_records, new_enrich_records, run_count,
           call_number, parked, calls, stage >>

\* the variables of _extract_contacts_from_soup called on its own
extractVars == << page_soup, page_domain, page_emails, page_strategy, page_contacts >>

\* the variables of cache_db
cacheVars == << ria_cache, cache_clock, cache_op, cache_request, cache_result, saved_scores,
                saved_enrichments >>

\* the variables of the discovery run of app.py
appVars == << df, cached_scores, cached_enrichments, new_indices, position,
              new_score_records, new_enrich_records, run_count >>

\* the variables that hold a second call of enrich_contact
pairVars == << call_number, parked, calls, stage >>

\* the variables that no step of enrich_contact touches
otherVars == << extractVars, cacheVars, appVars, pairVars >>

inputVars == << website_url, hunter_api_key, site >>

crawlVars == << url, scrape_domain, fetched_urls, discovered_subpages, visited, subpage_count,
                all_contacts, extractions >>

pageRequestVars == << home_requests, sub_requests, sub_request_count >>

directoryVars == << search_response, finder_response >>

\* Flow with Methods 1 and 2 exchanged: the scraping comes first
Flow_ScrapeFirst == [entry |-> "scrape", scrape |-> "search", search |-> "reconcile"]

\* The order of the steps of enrich_contact: Method 1 (domain search), then
\* Method 2 (website scraping), then the selection of the best contact.
Flow == [entry |-> "search", search |-> "scrape", scrape |-> "reconcile"]

(***************************************************************************)
(* PageFetcher (_fetch_page_soup)                                          *)
(***************************************************************************)

\* a None where the code expects a dict or a BeautifulSoup object
NoneDict == [none |-> TRUE]

\* _fetch_page_soup giving an empty page in place of None
_fetch_page_soup_EmptyOnFailure(u) ==
    IF RStripSlash(u) \in DOMAIN site THEN site[RStripSlash(u)]
    ELSE [lines |-> <<>>, hrefs |-> {}, cards |-> <<>>]

\* the soup of a url, or None for a non-200 status or a RequestException.
\* A server answers for a path with and without its trailing slash alike.
_fetch_page_soup(u) ==
    IF RStripSlash(u) \in DOMAIN site THEN site[RStripSlash(u)] ELSE NoneDict

(***************************************************************************)
(* SiteCrawler (_scrape_website_contacts)                                  *)
(***************************************************************************)

CONTACT_SUBPAGES ==
    << "/contact", "/contact-us", "/about", "/about-us", "/team", "/our-team",
      "/people", "/leadership", "/staff", "/our-firm", "/bio", "/advisors" >>

\* the model adds the first NumSubpagePaths paths of CONTACT_SUBPAGES to
\* discovered_subpages
NumSubpagePaths == 5

\* `if subpage_count >= 6: break`
SubpageLimit == 6

\* scheme://netloc of a url
UrlRoot(u) ==
    LET p == urlparse(u) IN p.scheme \o "://" \o p.netloc

\* the path of a url up to its last '/', or '/'
UrlDir(u) ==
    LET path == urlparse(u).path
        slashes == {i \in 1..Len(path) : CharAt(path, i) = "/"}
    IN  IF slashes = {} THEN "/"
        ELSE SubSeq(path, 1, CHOOSE i \in slashes : \A j \in slashes : j <= i)

\* urljoin raises ValueError('Invalid IPv6 URL') on an unbalanced bracket in
\* the netloc of the link
UrljoinRaises(href) ==
    LET netloc == urlparse(href).netloc
    IN  Contains(netloc, "[") # Contains(netloc, "]")

\* urllib.parse.urljoin(base, href), for links without '.' segments
urljoin(base, href) ==
    LET p == urlparse(href)
    IN  IF p.scheme # "" THEN p.scheme \o From(href, Len(p.scheme))
        ELSE IF StartsWith(href, "//") THEN urlparse(base).scheme \o ":" \o href
        ELSE IF StartsWith(href, "/") THEN UrlRoot(base) \o href
        ELSE UrlRoot(base) \o UrlDir(base) \o href

\* the links of the homepage the discovery keeps: the href, in lower case,
\* contains one of the subpage names
IsContactLink(href) ==
    \E i \in 1..Len(CONTACT_SUBPAGES) :
        Contains(Strip(Lower(href)), LStripSlash(CONTACT_SUBPAGES[i]))

\* discovered_subpages after both discovery loops
DiscoveredSubpages(soup, u) ==
    {RStripSlash(urljoin(u, h)) : h \in {x \in soup.hrefs : IsContactLink(x)}}
    \cup {RStripSlash(u) \o CONTACT_SUBPAGES[i] : i \in 1..NumSubpagePaths}

\* an exception leaves the discovery loop
DiscoveryRaises(soup) == \E h \in soup.hrefs : IsContactLink(h) /\ UrljoinRaises(h)

\* The crawler is entered without a website: it returns [] at once.
ScrapeNoWebsite ==
    /\ pc = "scrape"
    /\ IsBlankWebsite(website_url)
    /\ pc' = Flow.scrape
    /\ UNCHANGED << otherVars, inputVars, directoryVars, domain, all_candidates, best, found, crawlVars,
                    search_requests, pageRequestVars, finder_requests >>

\* HomepageFetched recording the url with its trailing slash
HomepageFetched_RawUrl(soup, u) ==
    /\ fetched_urls' = {u}
    /\ \E contacts \in _extract_contacts_from_soup(soup, extract_domain(website_url)) :
          all_contacts' = contacts
    /\ scrape_domain' = extract_domain(website_url)
    /\ IF DiscoveryRaises(soup)
       THEN /\ pc' = "raised"
            /\ UNCHANGED discovered_subpages
       ELSE /\ pc' = "subpages"
            /\ discovered_subpages' = DiscoveredSubpages(soup, u)
    /\ extractions' = extractions + 1
    /\ UNCHANGED << visited, subpage_count >>

\* the homepage was fetched: its contacts are extracted and its subpages are
\* discovered
HomepageFetched(soup, u) ==
    /\ fetched_urls' = {RStripSlash(u)}
    /\ \E contacts \in _extract_contacts_from_soup(soup, extract_domain(website_url)) :
          all_contacts' = contacts
    /\ scrape_domain' = extract_domain(website_url)
    /\ IF DiscoveryRaises(soup)
       THEN /\ pc' = "raised"
            /\ UNCHANGED discovered_subpages
       ELSE /\ pc' = "subpages"
            /\ discovered_subpages' = DiscoveredSubpages(soup, u)
    /\ extractions' = extractions + 1
    /\ UNCHANGED << visited, subpage_count >>

\* CanRetry for both schemes
CanRetry_AnyScheme(u) == StartsWith(u, "http")

\* `if url.startswith('https://')`: the failed homepage fetch is retried
CanRetry(u) == StartsWith(u, "https://")

\* 'http://' + url[8:]
RetryUrl(u) == "http://" \o From(u, 8)

\* The first fetch of the homepage.  A failed fetch of an https:// url is
\* followed by a second fetch (RetryHomepage); with any other url the crawler
\* returns [].
FetchHomepage ==
    /\ pc = "scrape"
    /\ ~IsBlankWebsite(website_url)
    /\ LET u == NormalizedUrl(website_url)
           soup == _fetch_page_soup(u)
       IN  /\ home_requests' = Append(home_requests, u)
           /\ IF soup # NoneDict
              THEN /\ url' = u
                   /\ HomepageFetched(soup, u)
              ELSE /\ IF CanRetry(u)
                      THEN /\ url' = RetryUrl(u)
                           /\ pc' = "retry"
                      ELSE /\ url' = u
                           /\ pc' = Flow.scrape
                   /\ scrape_domain' = extract_domain(website_url)
                   /\ UNCHANGED << fetched_urls, discovered_subpages, visited,
                                   subpage_count, all_contacts, extractions >>
    /\ UNCHANGED << otherVars, inputVars, directoryVars, domain, all_candidates, best, found, search_requests,
                    sub_requests, sub_request_count, finder_requests >>

\* The second fetch of the homepage, with http:// in place of https://.
RetryHomepage ==
    /\ pc = "retry"
    /\ LET soup == _fetch_page_soup(url)
       IN  /\ home_requests' = Append(home_requests, url)
           /\ IF soup # NoneDict
              THEN HomepageFetched(soup, url)
              ELSE /\ pc' = Flow.scrape
                   /\ UNCHANGED << scrape_domain, fetched_urls, discovered_subpages,
                                   visited, subpage_count, all_contacts,
                                   extractions >>
    /\ UNCHANGED << otherVars, inputVars, directoryVars, domain, all_candidates, best, found, url, search_requests,
                    sub_requests, sub_request_count, finder_requests >>

\* One iteration of `for sub_url in discovered_subpages` that hits `continue`:
\* the url is in fetched_urls.  The set is iterated in an arbitrary order.
SkipFetchedSubpage ==
    /\ pc = "subpages"
    /\ \E sub_url \in discovered_subpages \ visited :
          /\ sub_url \in fetched_urls
          /\ visited' = visited \cup {sub_url}
    /\ UNCHANGED << otherVars, inputVars, directoryVars, pc, domain, all_candidates, best, found, url,
                    scrape_domain, fetched_urls, discovered_subpages, subpage_count,
                    all_contacts, extractions,
                    search_requests, pageRequestVars, finder_requests >>

\* One iteration that fetches sub_url.
FetchSubpage ==
    /\ pc = "subpages"
    /\ \E sub_url \in discovered_subpages \ visited :
          /\ sub_url \notin fetched_urls
          /\ subpage_count < SubpageLimit
          /\ visited' = visited \cup {sub_url}
          /\ sub_requests' = sub_requests \cup {sub_url}
          /\ sub_request_count' = sub_request_count + 1
          /\ LET sub_soup == _fetch_page_soup(sub_url)
             IN  IF sub_soup # NoneDict
                 THEN /\ fetched_urls' = fetched_urls \cup {sub_url}
                      /\ \E contacts \in _extract_contacts_from_soup(
                                             sub_soup, scrape_domain) :
                            all_contacts' = all_contacts \o contacts
                      /\ subpage_count' = subpage_count + 1
                      /\ extractions' = extractions + 1
                 ELSE UNCHANGED << fetched_urls, all_contacts, subpage_count,
                                   extractions >>
    /\ UNCHANGED << otherVars, inputVars, directoryVars, pc, domain, all_candidates, best, found, url,
                    scrape_domain, discovered_subpages, search_requests, home_requests,
                    finder_requests >>

\* The loop ends, at `break` (an unfetched url is taken when subpage_count
\* has reached the limit) or because the set is exhausted; the crawler
\* returns all_contacts and enrich_contact extends all_candidates with them.
FinishCrawl ==
    /\ pc = "subpages"
    /\ \/ discovered_subpages \ visited = {}
       \/ /\ subpage_count >= SubpageLimit
          /\ \E sub_url \in discovered_subpages \ visited : sub_url \notin fetched_urls
    /\ all_candidates' = all_candidates \o all_contacts
    /\ pc' = Flow.scrape
    /\ UNCHANGED << otherVars, inputVars, directoryVars, domain, best, found, crawlVars, search_requests,
                    pageRequestVars, finder_requests >>

(***************************************************************************)
(* DirectoryClient (_hunter_domain_search, _hunter_email_finder)           *)
(***************************************************************************)

\* dict.get(k, default)
DictGet(d, k, default) == IF k \in DOMAIN d THEN d[k] ELSE default

\* the dict {}
EmptyDict == [k \in {} |-> None]

\* the status of a request that ended in a requests.RequestException
TransportError == 0

\* no request was sent, so there is no response
NoResponse == [status |-> NoneInt, body |-> EmptyDict]

\* HunterCandidate marked as a scraped candidate
HunterCandidate_Scraped(entry) ==
    [name |-> Strip(OrEmpty(DictGet(entry, "first_name", None)) \o " "
                    \o OrEmpty(DictGet(entry, "last_name", None))),
     email |-> DictGet(entry, "value", ""),
     title |-> OrEmpty(DictGet(entry, "position", None)),
     source |-> "website",
     confidence |-> 0, seniority |-> "", phone |-> "", linkedin |-> "", verified |-> ""]

\* the candidate dict built from one record of data['emails']
HunterCandidate(entry) ==
    LET first == Strip(OrEmpty(DictGet(entry, "first_name", None)))
        last == Strip(OrEmpty(DictGet(entry, "last_name", None)))
        verification ==
            IF DictGet(entry, "verification", NoneDict) = NoneDict THEN EmptyDict
            ELSE entry.verification
    IN  [name |-> IF first # "" \/ last # "" THEN Strip(first \o " " \o last) ELSE "",
         email |-> DictGet(entry, "value", ""),
         title |-> OrEmpty(DictGet(entry, "position", None)),
         source |-> "hunter.io",
         confidence |-> OrZero(DictGet(entry, "confidence", NoneInt)),
         seniority |-> OrEmpty(DictGet(entry, "seniority", None)),
         phone |-> OrEmpty(DictGet(entry, "phone_number", None)),
         linkedin |-> OrEmpty(DictGet(entry, "linkedin", None)),
         verified |-> OrEmpty(DictGet(verification, "status", None))]

\* an AttributeError leaves _hunter_domain_search: data is null and
\* None.get is called
DomainSearchRaises(resp) ==
    /\ resp.status = 200
    /\ DictGet(resp.body, "data", EmptyDict) = NoneDict

\* DomainSearchResults without the test of the status
DomainSearchResults_AnyStatus(resp) ==
    LET data == DictGet(resp.body, "data", EmptyDict)
        emails == DictGet(data, "emails", <<>>)
    IN  [i \in 1..Len(emails) |-> HunterCandidate(emails[i])]

\* the list _hunter_domain_search returns for a response
DomainSearchResults(resp) ==
    IF resp.status # 200 THEN <<>>
    ELSE LET data == DictGet(resp.body, "data", EmptyDict)
             emails == DictGet(data, "emails", <<>>)
         IN  [i \in 1..Len(emails) |-> HunterCandidate(emails[i])]

\* an AttributeError leaves _hunter_email_finder
EmailFinderRaises(resp) ==
    /\ resp.status = 200
    /\ DictGet(resp.body, "data", EmptyDict) = NoneDict

\* the dict _hunter_email_finder returns for a response: {} or the email found
EmailFinderResult(resp) ==
    IF resp.status # 200 THEN EmptyDict
    ELSE LET data == DictGet(resp.body, "data", EmptyDict)
             email == OrEmpty(DictGet(data, "email", None))
             verification ==
                 IF DictGet(data, "verification", NoneDict) = NoneDict THEN EmptyDict
                 ELSE data.verification
         IN  IF email = "" THEN EmptyDict
             ELSE [email |-> email,
                   confidence |-> OrZero(DictGet(data, "score", NoneInt)),
                   phone |-> OrEmpty(DictGet(data, "phone_number", None)),
                   linkedin |-> OrEmpty(DictGet(data, "linkedin", None)),
                   verified |-> OrEmpty(DictGet(verification, "status", None))]

\* an AttributeError leaves get_hunter_account_info
AccountInfoRaises(resp) ==
    /\ resp.status = 200
    /\ DictGet(resp.body, "data", EmptyDict) = NoneDict

\* how many requests get_hunter_account_info sends
AccountInfoRequests(api_key) == IF api_key = None \/ api_key = "" THEN 0 ELSE 1

\* the dict get_hunter_account_info returns for the response to its request
get_hunter_account_info(api_key, resp) ==
    IF api_key = None \/ api_key = "" THEN EmptyDict
    ELSE IF resp.status # 200 THEN EmptyDict
    ELSE LET data == DictGet(resp.body, "data", EmptyDict)
             requests_info ==
                 IF DictGet(data, "requests", NoneDict) = NoneDict THEN EmptyDict
                 ELSE data.requests
             searches ==
                 IF DictGet(requests_info, "searches", NoneDict) = NoneDict THEN EmptyDict
                 ELSE requests_info.searches
         IN  [used |-> OrZero(DictGet(searches, "used", NoneInt)),
              limit |-> OrZero(DictGet(searches, "available", NoneInt))]

\* the responses to an account-status request
AccountResponses ==
    [status : {TransportError, 401, 429, 500}, body : {EmptyDict}]
    \cup {[status |-> 401, body |-> [data |-> [requests |-> [searches |-> [used |-> 50]]]]]}
    \cup [status : {200},
          body : { EmptyDict, [data |-> EmptyDict], [data |-> [requests |-> NoneDict]],
                   [data |-> [requests |-> [searches |-> [used |-> 7, available |-> 50]]]] }]

(***************************************************************************)
(* enrich_contact                                                          *)
(***************************************************************************)

\* `if x:` on a string argument that may be None
Truthy(x) == x # None /\ x # ""

\* the responses of the directory service to a domain search: the entries of
\* data['emails'] are drawn from HunterEntries
HunterEntries ==
    { [first_name |-> "Jane", last_name |-> "Smith", value |-> "jane@acme.com",
       position |-> "Chief Compliance Officer", confidence |-> 90,
       seniority |-> "executive", phone_number |-> None,
       linkedin |-> "linkedin.com/in/jane", verification |-> [status |-> "valid"]],
      [first_name |-> "Bob", last_name |-> "Roe", value |-> "info@acme.com",
       position |-> "Advisor", confidence |-> NoneInt, seniority |-> None,
       phone_number |-> "555-0101", linkedin |-> None, verification |-> NoneDict],
      [first_name |-> "Ann", last_name |-> "Lee", value |-> "",
       position |-> "Partner", confidence |-> 40, seniority |-> "senior",
       linkedin |-> "linkedin.com/in/ann"],
      [first_name |-> "Cher", last_name |-> None, value |-> "",
       position |-> None],
      [first_name |-> "Max", last_name |-> "Orr", value |-> None,
       position |-> "Analyst"] }

\* the longest data['emails'] the model lets the service return
MaxEntries == 1

RECURSIVE SeqsUpTo(_, _)
\* the sequences over S of length at most n
SeqsUpTo(S, n) ==
    IF n = 0 THEN {<<>>}
    ELSE LET shorter == SeqsUpTo(S, n - 1)
         IN  shorter \cup {Append(q, x) : q \in shorter, x \in S}

\* 'limit': 10, the number of records the domain search asks for
SearchLimit == 10

\* a record of the directory service with every field set
FullEntry == CHOOSE e \in HunterEntries : e.first_name = "Jane"

\* the responses to a domain search: failures without a body, a failure whose
\* body holds a record, answers with short lists of records, and the answer
\* of a service that returns one record more than the limit asked for
SearchResponses ==
    [status : {TransportError, 401, 429, 500}, body : {EmptyDict}]
    \cup {[status |-> 500, body |-> [data |-> [emails |-> << FullEntry >>]]]}
    \cup [status : {200},
          body : {EmptyDict, [data |-> NoneDict], [data |-> EmptyDict]}
                 \cup {[data |-> [emails |-> q]] : q \in SeqsUpTo(HunterEntries, MaxEntries)}
                 \cup {[data |-> [emails |-> [i \in 1..(SearchLimit + 1) |-> FullEntry]]]}]

FinderResponses ==
    [status : {TransportError, 401, 429, 500}, body : {EmptyDict}]
    \cup {[status |-> 429, body |-> [data |-> [email |-> "ann.lee@acme.com"]]]}
    \cup [status : {200},
          body : { EmptyDict, [data |-> NoneDict], [data |-> [email |-> None]],
                   [data |-> [email |-> "ann.lee@acme.com", score |-> 80,
                              phone_number |-> "555-0100", linkedin |-> None,
                              verification |-> [status |-> "valid"]]],
                   [data |-> [email |-> "info@acme.com", phone_number |-> None,
                              linkedin |-> "linkedin.com/in/found"]] }]

\* Method 1: the domain search, when there are a credential and a domain.
DomainSearch ==
    /\ pc = "search"
    /\ Truthy(hunter_api_key)
    /\ extract_domain(website_url) # None
    /\ domain' = extract_domain(website_url)
    /\ search_requests' = search_requests + 1
    /\ \E resp \in SearchResponses :
          /\ search_response' = resp
          /\ IF DomainSearchRaises(resp)
             THEN /\ pc' = "raised"
                  /\ UNCHANGED all_candidates
             ELSE /\ pc' = Flow.search
                  /\ all_candidates' = all_candidates \o DomainSearchResults(resp)
    /\ UNCHANGED << otherVars, inputVars, finder_response, best, found, crawlVars, pageRequestVars, finder_requests >>

\* No credential or no domain: the domain search is not called.
SkipDomainSearch ==
    /\ pc = "search"
    /\ ~(Truthy(hunter_api_key) /\ extract_domain(website_url) # None)
    /\ domain' = extract_domain(website_url)
    /\ pc' = Flow.search
    /\ UNCHANGED << otherVars, inputVars, directoryVars, all_candidates, best, found, crawlVars, search_requests,
                    pageRequestVars, finder_requests >>

\* best = _select_best_contact(all_candidates)
Reconcile ==
    /\ pc = "reconcile"
    /\ IF SelectBestRaises(all_candidates)
       THEN /\ pc' = "raised"
            /\ UNCHANGED best
       ELSE /\ pc' = "backfill"
            /\ best' = _select_best_contact(all_candidates)
    /\ UNCHANGED << otherVars, inputVars, directoryVars, domain, all_candidates, found, crawlVars, search_requests,
                    pageRequestVars, finder_requests >>

\* NeedsFinder asking for a middle name too
NeedsFinder_ThreeTokens ==
    /\ Truthy(hunter_api_key)
    /\ domain # None
    /\ best.name # ""
    /\ best.email = ""
    /\ Len(Split(best.name)) >= 3

\* NeedsFinder without the test of the number of tokens
NeedsFinder_AnyName ==
    /\ Truthy(hunter_api_key)
    /\ domain # None
    /\ best.name # ""
    /\ best.email = ""

\* the test of Method 3: a credential, a domain, a name of at least two
\* tokens and no email
NeedsFinder ==
    /\ Truthy(hunter_api_key)
    /\ domain # None
    /\ best.name # ""
    /\ best.email = ""
    /\ Len(Split(best.name)) >= 2

\* Backfilled taking the phone and the profile of the finder in every case
Backfilled_Overwrite(b, f) ==
    IF DictGet(f, "email", "") = "" THEN b
    ELSE [b EXCEPT !.email = f.email, !.phone = f.phone, !.linkedin = f.linkedin]

\* best after the fallback has taken over what the finder found
Backfilled(b, f) ==
    IF DictGet(f, "email", "") = "" THEN b
    ELSE [b EXCEPT !.email = f.email,
                   !.phone = IF b.phone = "" /\ f.phone # "" THEN f.phone
                             ELSE b.phone,
                   !.linkedin = IF b.linkedin = "" /\ f.linkedin # ""
                                THEN f.linkedin ELSE b.linkedin]

\* Method 3: the Email Finder fallback.
FinderLookup ==
    /\ pc = "backfill"
    /\ NeedsFinder
    /\ LET parts == Split(best.name)
       IN  finder_requests' = Append(finder_requests,
               [domain |-> domain, first_name |-> parts[1],
                last_name |-> parts[Len(parts)]])
    /\ \E resp \in FinderResponses :
          /\ finder_response' = resp
          /\ IF EmailFinderRaises(resp)
             THEN /\ pc' = "raised"
                  /\ UNCHANGED << best, found >>
             ELSE /\ pc' = "done"
                  /\ found' = EmailFinderResult(resp)
                  /\ best' = Backfilled(best, EmailFinderResult(resp))
    /\ UNCHANGED << otherVars, inputVars, search_response, domain, all_candidates, crawlVars, search_requests,
                    pageRequestVars >>

\* The fallback is not needed: enrich_contact returns best as it is.
SkipFinder ==
    /\ pc = "backfill"
    /\ ~NeedsFinder
    /\ pc' = "done"
    /\ UNCHANGED << otherVars, inputVars, directoryVars, domain, all_candidates, best, found, crawlVars,
                    search_requests, pageRequestVars, finder_requests >>

\* the dict enrich_contact returns
ReturnValue ==
    [contact_name |-> best.name, contact_email |-> best.email,
     contact_title |-> best.title, contact_phone |-> best.phone,
     contact_linkedin |-> best.linkedin]

(***************************************************************************)
(* Inputs                                                                  *)
(***************************************************************************)

PgEmpty == [hrefs |-> {}, lines |-> << >>, cards |-> << >>]

PgTeam ==
    [hrefs |-> {"/bio/jane", "/about/", "mailto:contact@acme.com"},
     lines |-> << "Meet Jane", "chief compliance officer", "",
                  "Jane Smith has twenty years of experience.",
                  "Wealth Management, CEO", "info@acme.com help@sec.gov" >>,
     cards |-> << >>]

PgContact ==
    [hrefs |-> {"mailto:Ann.Lee@Acme.com?subject=Hello"},
     lines |-> << "Call zed@other.org", "logo@2x.png" >>,
     cards |-> << >>]

PgBio ==
    [hrefs |-> {},
     lines |-> << "Ann Lee, Managing Partner", "ann.lee@acme.com" >>,
     cards |-> << >>]

\* no call of _extract_contacts_from_soup on its own
ExtractIdle ==
    /\ page_soup = PgEmpty
    /\ page_domain = None
    /\ page_emails = << >>
    /\ page_strategy = [A |-> << >>, B |-> << >>, C |-> << >>]
    /\ page_contacts = << >>

\* no call of cache_db: the table is empty
CacheIdle ==
    /\ ria_cache = EmptyDict
    /\ cache_clock = 0
    /\ cache_op = ""
    /\ cache_request = << >>
    /\ cache_result = EmptyDict
    /\ saved_scores = EmptyDict
    /\ saved_enrichments = EmptyDict

\* no discovery run of the application
AppIdle ==
    /\ df = << >>
    /\ cached_scores = EmptyDict
    /\ cached_enrichments = EmptyDict
    /\ new_indices = << >>
    /\ position = 0
    /\ new_score_records = << >>
    /\ new_enrich_records = << >>
    /\ run_count = 0

\* the values of the variables of a call when enrich_contact(website, key) is
\* entered
InitialCall(website, key) ==
    [website_url |-> website, hunter_api_key |-> key, pc |-> Flow.entry, domain |-> None,
     all_candidates |-> << >>, best |-> empty, found |-> EmptyDict, url |-> "",
     scrape_domain |-> None, fetched_urls |-> {}, discovered_subpages |-> {},
     visited |-> {}, subpage_count |-> 0, all_contacts |-> << >>, search_requests |-> 0,
     home_requests |-> << >>, sub_requests |-> {}, sub_request_count |-> 0,
     finder_requests |-> << >>, search_response |-> NoResponse,
     finder_response |-> NoResponse, extractions |-> 0]

\* one call of enrich_contact and no other
SingleCall ==
    /\ call_number = 0
    /\ parked = InitialCall(None, None)
    /\ calls = << >>
    /\ stage = ""

\* nothing but enrich_contact and its parts runs
OtherIdle == ExtractIdle /\ CacheIdle /\ AppIdle /\ SingleCall

\* the website values of the runs: a missing one (None), blank ones and urls
Websites ==
    {None, "", "nan", " None ", "acme.com", "http://acme.com/", "acme.com/about/",
     "localhost"}

ApiKeys == {None, "key"}

\* the site where the urls of S answer with the page pg
Pages(S, pg) == [u \in S |-> pg]

\* the sites of the end-to-end runs
Sites ==
    { Pages({}, PgEmpty),
      Pages({"https://acme.com"}, PgTeam),
      Pages({"https://acme.com"}, PgTeam) @@ Pages({"https://acme.com/about"}, PgBio)
          @@ Pages({"https://acme.com/contact"}, PgContact),
      Pages({"http://acme.com"}, PgContact) @@ Pages({"http://acme.com/team"}, PgTeam),
      Pages({"https://acme.com/about"}, PgTeam)
          @@ Pages({"https://acme.com/about" \o CONTACT_SUBPAGES[i] :
                       i \in 1..NumSubpagePaths}, PgEmpty)
          @@ Pages({"https://acme.com/bio/jane"}, PgBio),
      Pages({"https://localhost"}, PgContact) }

Init ==
    /\ website_url \in Websites
    /\ hunter_api_key \in ApiKeys
    /\ site \in Sites
    /\ pc = Flow.entry
    /\ domain = None
    /\ all_candidates = <<>>
    /\ best = empty
    /\ found = EmptyDict
    /\ url = ""
    /\ scrape_domain = None
    /\ fetched_urls = {}
    /\ discovered_subpages = {}
    /\ visited = {}
    /\ subpage_count = 0
    /\ all_contacts = <<>>
    /\ search_requests = 0
    /\ home_requests = <<>>
    /\ sub_requests = {}
    /\ sub_request_count = 0
    /\ finder_requests = <<>>
    /\ search_response = NoResponse
    /\ finder_response = NoResponse
    /\ extractions = 0
    /\ OtherIdle

Next ==
    \/ DomainSearch
    \/ SkipDomainSearch
    \/ ScrapeNoWebsite
    \/ FetchHomepage
    \/ RetryHomepage
    \/ SkipFetchedSubpage
    \/ FetchSubpage
    \/ FinishCrawl
    \/ Reconcile
    \/ FinderLookup
    \/ SkipFinder

Spec == Init /\ [][Next]_vars

(***************************************************************************)
(* _scrape_website_contacts called on its own                              *)
(***************************************************************************)

CrawlWebsites == {"nan", "acme.com", "http://acme.com/", "acme.com/about/"}

\* the urls from which a crawl of CrawlWebsites can fetch a homepage
CrawlHomepages == {"https://acme.com", "http://acme.com", "https://acme.com/about"}

\* the homepage of the crawled sites that has links
LinkedHomepage == "https://acme.com/about"

\* the urls of S a server can answer: requests refuses every other scheme
Fetchable(S) == {u \in S : StartsWith(u, "http://") \/ StartsWith(u, "https://")}

\* the sites of the crawls: no homepage or one homepage, with or without
\* links, and any subset of the subpages it leads to, all without contacts
CrawlSites ==
    {Pages({}, PgEmpty)}
    \cup UNION {{Pages({h}, PgEmpty) @@ Pages(alive, PgEmpty) :
                    alive \in SUBSET Fetchable(DiscoveredSubpages(PgEmpty, h))} :
                h \in CrawlHomepages}
    \cup {Pages({LinkedHomepage}, PgTeam) @@ Pages(alive, PgEmpty) :
             alive \in SUBSET (Fetchable(DiscoveredSubpages(PgTeam, LinkedHomepage))
                                 \ {LinkedHomepage})}

InitCrawl ==
    /\ website_url \in CrawlWebsites
    /\ hunter_api_key = None
    /\ site \in CrawlSites
    /\ pc = "scrape"
    /\ domain = None
    /\ all_candidates = <<>>
    /\ best = empty
    /\ found = EmptyDict
    /\ url = ""
    /\ scrape_domain = None
    /\ fetched_urls = {}
    /\ discovered_subpages = {}
    /\ visited = {}
    /\ subpage_count = 0
    /\ all_contacts = <<>>
    /\ search_requests = 0
    /\ home_requests = <<>>
    /\ sub_requests = {}
    /\ sub_request_count = 0
    /\ finder_requests = <<>>
    /\ search_response = NoResponse
    /\ finder_response = NoResponse
    /\ extractions = 0
    /\ OtherIdle

NextCrawl ==
    \/ ScrapeNoWebsite
    \/ FetchHomepage
    \/ RetryHomepage
    \/ SkipFetchedSubpage
    \/ FetchSubpage
    \/ FinishCrawl

SpecCrawl == InitCrawl /\ [][NextCrawl]_vars

(***************************************************************************)
(* _select_best_contact called on its own                                  *)
(***************************************************************************)

\* the candidates of the lists given to the Reconciler
ReconcilerCandidates ==
    { ScrapedCandidate("Jane Smith", "", "Chief Compliance Officer"),
      ScrapedCandidate("Jane Smith", "jane@acme.com", "Partner"),
      ScrapedCandidate("Tom Ray", "", "Chief Compliance Officer"),
      ScrapedCandidate("", "zed@other.org", ""),
      [name |-> "Ann Lee", email |-> "ann@acme.com", title |-> "Chief Compliance Officer",
       source |-> "hunter.io", confidence |-> 90, seniority |-> "executive",
       phone |-> "555-0100", linkedin |-> "", verified |-> "valid"],
      [name |-> "Sam Fox", email |-> "", title |-> "CCO / Principal",
       source |-> "hunter.io", confidence |-> 95, seniority |-> "Executive",
       phone |-> "", linkedin |-> "linkedin.com/in/sam", verified |-> ""],
      [name |-> "Bob Roe", email |-> "", title |-> "Chief Compliance Officer",
       source |-> "hunter.io", confidence |-> 40, seniority |-> "management",
       phone |-> "", linkedin |-> "", verified |-> ""],
      [name |-> "Eve Poe", email |-> "eve@acme.com", title |-> "Intern",
       source |-> "hunter.io", confidence |-> 99, seniority |-> "senior",
       phone |-> "", linkedin |-> "", verified |-> "invalid"],
      [name |-> "", email |-> "desk@acme.com", title |-> "",
       source |-> "hunter.io", confidence |-> 50, seniority |-> "",
       phone |-> "555-0199", linkedin |-> "", verified |-> "valid"],
      [name |-> "Al Kim", email |-> "", title |-> "Accountant",
       source |-> "hunter.io", confidence |-> 10, seniority |-> "",
       phone |-> "", linkedin |-> "", verified |-> ""],
      [name |-> "", email |-> "", title |-> "",
       source |-> "hunter.io", confidence |-> 0, seniority |-> "",
       phone |-> "555-0000", linkedin |-> "linkedin.com/company/acme", verified |-> ""],
      [name |-> "Max Orr", email |-> None, title |-> "Analyst",
       source |-> "hunter.io", confidence |-> 0, seniority |-> "",
       phone |-> "", linkedin |-> "", verified |-> ""] }

\* the longest list given to the Reconciler
MaxCandidates == 3

InitReconcile ==
    /\ website_url = "acme.com"
    /\ hunter_api_key = None
    /\ site = Pages({}, PgEmpty)
    /\ pc = "reconcile"
    /\ domain = None
    /\ all_candidates \in SeqsUpTo(ReconcilerCandidates, MaxCandidates)
    /\ best = empty
    /\ found = EmptyDict
    /\ url = ""
    /\ scrape_domain = None
    /\ fetched_urls = {}
    /\ discovered_subpages = {}
    /\ visited = {}
    /\ subpage_count = 0
    /\ all_contacts = <<>>
    /\ search_requests = 0
    /\ home_requests = <<>>
    /\ sub_requests = {}
    /\ sub_request_count = 0
    /\ finder_requests = <<>>
    /\ search_response = NoResponse
    /\ finder_response = NoResponse
    /\ extractions = 0
    /\ OtherIdle

NextReconcile == Reconcile

SpecReconcile == InitReconcile /\ [][NextReconcile]_vars

(***************************************************************************)
(* extract_domain called on its own                                        *)
(***************************************************************************)

DomainSchemes == {"", "http://", "https://", "HTTPS://"}

DomainPrefixes == {"", "www.", "WWW.", "www.www."}

DomainHosts == {"acme.com", "Acme.COM", "localhost"}

DomainPaths == {"", "/", "/about"}

\* the website strings given to extract_domain: a host with or without a
\* scheme, a www. prefix and a path, and the blank values
DomainInputs ==
    {None, "", "nan"}
    \cup {s \o w \o h \o p :
             s \in DomainSchemes, w \in DomainPrefixes, h \in DomainHosts, p \in DomainPaths}

\* domain = extract_domain(website_url)
ExtractDomain ==
    /\ pc = "extract"
    /\ domain' = extract_domain(website_url)
    /\ pc' = "extracted"
    /\ UNCHANGED << otherVars, inputVars, directoryVars, all_candidates, best, found, crawlVars,
                    search_requests, pageRequestVars, finder_requests >>

InitDomain ==
    /\ website_url \in DomainInputs
    /\ hunter_api_key = None
    /\ site = Pages({}, PgEmpty)
    /\ pc = "extract"
    /\ domain = None
    /\ all_candidates = <<>>
    /\ best = empty
    /\ found = EmptyDict
    /\ url = ""
    /\ scrape_domain = None
    /\ fetched_urls = {}
    /\ discovered_subpages = {}
    /\ visited = {}
    /\ subpage_count = 0
    /\ all_contacts = <<>>
    /\ search_requests = 0
    /\ home_requests = <<>>
    /\ sub_requests = {}
    /\ sub_request_count = 0
    /\ finder_requests = <<>>
    /\ search_response = NoResponse
    /\ finder_response = NoResponse
    /\ extractions = 0
    /\ OtherIdle

NextDomain == ExtractDomain

SpecDomain == InitDomain /\ [][NextDomain]_vars

(***************************************************************************)
(* _extract_contacts_from_soup called on its own                           *)
(***************************************************************************)

\* no call of enrich_contact: its variables keep their initial values
CallIdle ==
    /\ website_url = None
    /\ hunter_api_key = None
    /\ site = Pages({}, PgEmpty)
    /\ domain = None
    /\ all_candidates = <<>>
    /\ best = empty
    /\ found = EmptyDict
    /\ url = ""
    /\ scrape_domain = None
    /\ fetched_urls = {}
    /\ discovered_subpages = {}
    /\ visited = {}
    /\ subpage_count = 0
    /\ all_contacts = <<>>
    /\ search_requests = 0
    /\ home_requests = <<>>
    /\ sub_requests = {}
    /\ sub_request_count = 0
    /\ finder_requests = <<>>
    /\ search_response = NoResponse
    /\ finder_response = NoResponse
    /\ extractions = 0

\* how many blank lines the documents put between a title line and the line
\* that opens with a name
MaxBlankLines == 9

BlankLines(k) == [i \in 1..k |-> ""]

TitleLine == "Chief Compliance Officer"

BioLine == "Jane A. Smith has over twenty years of experience."

\* the texts of the documents: lines and cards
TextBlocks ==
    { [lines |-> << >>, cards |-> << >>],
      [lines |-> << "Mark Doe, Managing Partner" >>, cards |-> << >>],
      [lines |-> << "Managing Partner, Mark Doe" >>, cards |-> << >>],
      [lines |-> << "Our founder", "Mark Doe | CEO", "Wealth Management - Director" >>,
       cards |-> << >>],
      [lines |-> << "Partner", "About the firm", "Jane Smith is a partner." >>,
       cards |-> << >>],
      [lines |-> << "Founder", "", "Wealth Management is our focus." >>, cards |-> << >>],
      [lines |-> << "Jane Smith", "CEO" >>,
       cards |-> << [class |-> "team-member", first |-> 1, last |-> 2] >>],
      [lines |-> << "Ann Lee", "Managing Partner" >>,
       cards |-> << [class |-> "staff", first |-> 1, last |-> 2] >>],
      [lines |-> << "Mark Doe, Managing Partner", "Jane Smith, CFO" >>,
       cards |-> << [class |-> "profile", first |-> 1, last |-> 1] >>] }
    \cup { [lines |-> << TitleLine >> \o BlankLines(k) \o << BioLine >>, cards |-> << >>] :
              k \in {1, MaxBlankLines - 1, MaxBlankLines} }

\* the lines with addresses that the text of a document can end with
EmailLines ==
    { << >>,
      << "Write to (jane@acme.com). or INFO@acme.com" >>,
      << "infodesk@acme.com amy@sec.gov", "ian@notacme.com" >>,
      << "(jane@acme.com). ian@notacme.com infodesk@acme.com" >> }

\* the links of a document that has links
MailtoLinks == {"mailto:Ann.Lee@Acme.com?subject=Hello", "mailto:contact@acme.com"}

\* the documents of the extraction
Documents ==
    { [hrefs |-> hrefs, lines |-> text.lines \o emailLines, cards |-> text.cards] :
         text \in TextBlocks, hrefs \in {{}, MailtoLinks}, emailLines \in EmailLines }

\* the Domain of the firm, or None
PageDomains == {None, "acme.com"}

InitExtract ==
    /\ CallIdle
    /\ SingleCall
    /\ CacheIdle
    /\ AppIdle
    /\ pc = "document"
    /\ page_soup \in Documents
    /\ page_domain \in PageDomains
    /\ page_emails = << >>
    /\ page_strategy = [A |-> << >>, B |-> << >>, C |-> << >>]
    /\ page_contacts = << >>

\* what the strategies append: A, then B, then what C adds to both
StrategyLists(soup) ==
    [A |-> StrategyA(StrippedLines(soup)),
     B |-> StrategyB(StrippedLines(soup)),
     C |-> SubSeq(StrategyContacts(soup),
                  Len(StrategyA(StrippedLines(soup))) + Len(StrategyB(StrippedLines(soup))) + 1,
                  Len(StrategyContacts(soup)))]

\* one call of _extract_contacts_from_soup(soup, domain)
ExtractContacts ==
    /\ pc = "document"
    /\ pc' = "contacts"
    /\ \E emails \in _extract_emails_from_soup(page_soup, page_domain) :
          /\ page_emails' = emails
          /\ page_contacts' = ContactsOf(page_soup, emails)
    /\ page_strategy' = StrategyLists(page_soup)
    /\ UNCHANGED << inputVars, directoryVars, domain, all_candidates, best, found, crawlVars,
                    search_requests, pageRequestVars, finder_requests, page_soup,
                    page_domain, cacheVars, appVars, pairVars >>

NextExtract == ExtractContacts

SpecExtract == InitExtract /\ [][NextExtract]_vars

(***************************************************************************)
(* cache_db under batches of saves and lookups                             *)
(***************************************************************************)

\* how many batches that are not empty are saved
MaxSaves == 3

\* the CRD numbers of the saved records, and one that is never saved
SavedCrds == {101, 102}

UnsavedCrd == 103

\* what calculate_fit_score gives: a score and its reasons
FitScores == {[score |-> "85", reasons |-> "AUM in range"], [score |-> "N/A", reasons |-> ""]}

\* the records app.py passes to save_scores
ScoreRecords ==
    { [crd |-> c, company |-> "Acme", website |-> "acme.com", fit_score |-> s.score,
       fit_reasons |-> s.reasons] : c \in SavedCrds, s \in FitScores }

\* batches of score records: empty, one record, two records (of one crd or of
\* two)
ScoreBatches ==
    {<< >>} \cup {<< r >> : r \in ScoreRecords}
            \cup {<< r1, r2 >> : r1 \in {r \in ScoreRecords : r.crd = 101}, r2 \in ScoreRecords}

\* the contact fields of the enrichment records: without the phone and
\* linkedin keys as app.py builds them, and with them
ContactFields ==
    { [name |-> "Jane Smith", email |-> "jane@acme.com", title |-> "Ceo",
       phone |-> Missing, linkedin |-> Missing],
      [name |-> "", email |-> "", title |-> "", phone |-> Missing, linkedin |-> Missing],
      [name |-> "Ann Lee", email |-> "ann.lee@acme.com", title |-> "Partner",
       phone |-> "555-0100", linkedin |-> "linkedin.com/in/annlee"] }

\* the records passed to save_enrichments
EnrichmentRecords ==
    { [crd |-> c, contact_name |-> f.name, contact_email |-> f.email,
       contact_title |-> f.title, contact_phone |-> f.phone,
       contact_linkedin |-> f.linkedin] : c \in SavedCrds, f \in ContactFields }

EnrichmentBatches ==
    {<< >>} \cup {<< r >> : r \in EnrichmentRecords}
            \cup {<< r1, r2 >> : r1 \in {r \in EnrichmentRecords : r.crd = 102},
                                 r2 \in EnrichmentRecords}

\* the crd lists of the lookups
CrdLists == {<< >>, << 101 >>, << 102, 101 >>, << 101, UnsavedCrd >>}

\* the last record of the batch with the crd
LastOf(records, crd) ==
    records[CHOOSE i \in 1..Len(records) :
               /\ records[i].crd = crd
               /\ \A j \in (i + 1)..Len(records) : records[j].crd # crd]

\* `saved` with, for each crd of the batch, the fields of its last record
Recorded(saved, records, Fields(_)) ==
    [c \in DOMAIN saved \cup {records[i].crd : i \in 1..Len(records)} |->
        IF \E i \in 1..Len(records) : records[i].crd = c
        THEN Fields(LastOf(records, c))
        ELSE saved[c]]

\* the score of a score record
ScoreFields(r) == [fit_score |-> r.fit_score, fit_reasons |-> r.fit_reasons]

\* the contact fields of an enrichment record, an absent phone or linkedin
\* being ''
EnrichmentFields(r) ==
    [contact_name |-> r.contact_name, contact_email |-> r.contact_email,
     contact_title |-> r.contact_title,
     contact_phone |-> IF r.contact_phone = Missing THEN "" ELSE r.contact_phone,
     contact_linkedin |-> IF r.contact_linkedin = Missing THEN "" ELSE r.contact_linkedin]

InitCache ==
    /\ CallIdle
    /\ SingleCall
    /\ ExtractIdle
    /\ CacheIdle
    /\ AppIdle
    /\ pc = "cache"

\* the variables no call of cache_db touches
nonCacheVars == << inputVars, directoryVars, domain, all_candidates, best, found, crawlVars,
                   search_requests, pageRequestVars, finder_requests, extractVars, appVars,
                   pairVars, pc >>

\* save_scores(records)
SaveScores ==
    /\ pc = "cache"
    /\ \E records \in ScoreBatches :
          /\ records # << >> => cache_clock < MaxSaves
          /\ cache_clock' = IF records = << >> THEN cache_clock ELSE cache_clock + 1
          /\ ria_cache' = save_scores(ria_cache, records, cache_clock + 1)
          /\ saved_scores' = Recorded(saved_scores, records, ScoreFields)
    /\ cache_op' = "save_scores"
    /\ cache_request' = << >>
    /\ cache_result' = EmptyDict
    /\ UNCHANGED << nonCacheVars, saved_enrichments >>

\* save_enrichments(records)
SaveEnrichments ==
    /\ pc = "cache"
    /\ \E records \in EnrichmentBatches :
          /\ records # << >> => cache_clock < MaxSaves
          /\ cache_clock' = IF records = << >> THEN cache_clock ELSE cache_clock + 1
          /\ ria_cache' = save_enrichments(ria_cache, records, cache_clock + 1)
          /\ saved_enrichments' = Recorded(saved_enrichments, records, EnrichmentFields)
    /\ cache_op' = "save_enrichments"
    /\ cache_request' = << >>
    /\ cache_result' = EmptyDict
    /\ UNCHANGED << nonCacheVars, saved_scores >>

\* lookup_scores(crd_list)
LookupScores ==
    /\ pc = "cache"
    /\ \E crd_list \in CrdLists :
          /\ cache_request' = crd_list
          /\ cache_result' = lookup_scores(ria_cache, crd_list)
    /\ cache_op' = "lookup_scores"
    /\ UNCHANGED << nonCacheVars, ria_cache, cache_clock, saved_scores, saved_enrichments >>

\* lookup_enrichments(crd_list)
LookupEnrichments ==
    /\ pc = "cache"
    /\ \E crd_list \in CrdLists :
          /\ cache_request' = crd_list
          /\ cache_result' = lookup_enrichments(ria_cache, crd_list)
    /\ cache_op' = "lookup_enrichments"
    /\ UNCHANGED << nonCacheVars, ria_cache, cache_clock, saved_scores, saved_enrichments >>

NextCache == SaveScores \/ SaveEnrichments \/ LookupScores \/ LookupEnrichments

SpecCache == InitCache /\ [][NextCache]_vars

(***************************************************************************)
(* The discovery run of the application (app.py)                           *)
(***************************************************************************)

\* how many discovery runs are started
MaxRuns == 2

RECURSIVE StrToInt(_)
\* int(s) for a string of digits
StrToInt(s) ==
    IF s = "" THEN 0
    ELSE 10 * StrToInt(SubSeq(s, 1, Len(s) - 1))
         + (CHOOSE d \in 0..9 : CharAt("0123456789", d + 1) = CharAt(s, Len(s)))

\* _safe_crd(val): int(val) when it is positive, None when it is not or when
\* int raises; the values of the model have no sign and no spaces
_safe_crd(val) ==
    IF val = "" \/ \E i \in 1..Len(val) : CharAt(val, i) \notin Digits THEN NoneInt
    ELSE IF StrToInt(val) > 0 THEN StrToInt(val)
    ELSE NoneInt

\* website and website.lower() not in ('nan', '', 'none')
has_website(website) == website # "" /\ Lower(website) \notin {"nan", "", "none"}

\* the listings get_recent_rias gives: rows with the CRD and Website columns
Listings ==
    { << >>,
      << [CRD |-> "101", Website |-> "nan"], [CRD |-> "102", Website |-> "beta.com"] >>,
      << [CRD |-> "101", Website |-> "acme.com"], [CRD |-> "102", Website |-> "beta.com"] >>,
      << [CRD |-> "0", Website |-> "acme.com"], [CRD |-> "101", Website |-> "acme.com"] >>,
      << [CRD |-> "n/a", Website |-> "None"], [CRD |-> "102", Website |-> "beta.com"],
         [CRD |-> "102", Website |-> "beta.com"] >> }

\* what enrich_contact returns to the run: a contact, or the empty contact
EnrichedContacts ==
    { [contact_name |-> "Jane Smith", contact_email |-> "jane@acme.com",
       contact_title |-> "Ceo", contact_phone |-> "", contact_linkedin |-> ""],
      [contact_name |-> "", contact_email |-> "", contact_title |-> "",
       contact_phone |-> "", contact_linkedin |-> ""] }

\* crd_list and valid_crds
ValidCrds(rows) ==
    SelectSeq([i \in 1..Len(rows) |-> _safe_crd(rows[i].CRD)], LAMBDA c : c # NoneInt)

\* `crd and crd in cached`
IsCached(crd, cached) == crd # NoneInt /\ crd \in DOMAIN cached

\* new_indices: the rows whose score is not in cached_scores
NewIndices(rows, scores) ==
    SelectSeq([i \in 1..Len(rows) |-> i],
              LAMBDA i : ~IsCached(_safe_crd(rows[i].CRD), scores))

\* the record queued for save_scores
ScoreRecord(crd, website, score) ==
    [crd |-> crd, company |-> "", website |-> website, fit_score |-> score.score,
     fit_reasons |-> score.reasons]

\* the record queued for save_enrichments: it has no phone or linkedin key
EnrichRecord(crd, contact) ==
    [crd |-> crd, contact_name |-> contact.contact_name,
     contact_email |-> contact.contact_email, contact_title |-> contact.contact_title,
     contact_phone |-> Missing, contact_linkedin |-> Missing]

\* the row is enriched in this iteration
IsEnriched(row, cached) ==
    has_website(row.Website) /\ ~IsCached(_safe_crd(row.CRD), cached)

\* the variables no step of the discovery run touches
nonAppVars == << inputVars, directoryVars, domain, all_candidates, best, found, crawlVars,
                 search_requests, pageRequestVars, finder_requests, extractVars,
                 pairVars, cache_op, cache_request, cache_result >>

InitDiscovery ==
    /\ CallIdle
    /\ SingleCall
    /\ ExtractIdle
    /\ CacheIdle
    /\ AppIdle
    /\ pc = "discover"

\* Phases 1 and 2: the listing is fetched and the cache is looked up; with no
\* new row the run is over
StartRun ==
    /\ pc \in {"discover", "run_done", "run_aborted"}
    /\ run_count < MaxRuns
    /\ run_count' = run_count + 1
    /\ \E rows \in Listings :
          /\ df' = rows
          /\ cached_scores' = lookup_scores(ria_cache, ValidCrds(rows))
          /\ cached_enrichments' = lookup_enrichments(ria_cache, ValidCrds(rows))
          /\ new_indices' = NewIndices(rows, lookup_scores(ria_cache, ValidCrds(rows)))
          /\ pc' = IF NewIndices(rows, lookup_scores(ria_cache, ValidCrds(rows))) = << >>
                   THEN "run_done" ELSE "scoring"
    /\ position' = 0
    /\ new_score_records' = << >>
    /\ new_enrich_records' = << >>
    /\ UNCHANGED << nonAppVars, ria_cache, cache_clock, saved_scores, saved_enrichments >>

\* the records of one iteration, given the row, its crd, the score and the
\* contact
QueueRecords(row, crd, score, contact) ==
    /\ new_score_records' =
          IF crd # NoneInt
          THEN Append(new_score_records, ScoreRecord(crd, row.Website, score))
          ELSE new_score_records
    /\ new_enrich_records' =
          IF IsEnriched(row, cached_enrichments) /\ crd # NoneInt
          THEN Append(new_enrich_records, EnrichRecord(crd, contact))
          ELSE new_enrich_records

\* Phase 3, one iteration of the loop over new_indices: the row is scored,
\* and enriched when it has a website and no cached enrichment
ScoreRow ==
    /\ pc = "scoring"
    /\ position < Len(new_indices)
    /\ position' = position + 1
    /\ \E score \in FitScores : \E contact \in EnrichedContacts :
          QueueRecords(df[new_indices[position + 1]],
                       _safe_crd(df[new_indices[position + 1]].CRD), score, contact)
    /\ UNCHANGED << nonAppVars, pc, df, cached_scores, cached_enrichments, new_indices,
                    run_count, ria_cache, cache_clock, saved_scores, saved_enrichments >>

\* enrich_contact raises in an iteration that enriches: the run ends without
\* the saves
EnrichRaises ==
    /\ pc = "scoring"
    /\ position < Len(new_indices)
    /\ IsEnriched(df[new_indices[position + 1]], cached_enrichments)
    /\ pc' = "run_aborted"
    /\ UNCHANGED << nonAppVars, df, cached_scores, cached_enrichments, new_indices, position,
                    new_score_records, new_enrich_records, run_count, ria_cache,
                    cache_clock, saved_scores, saved_enrichments >>

\* the clock after a save of the records
ClockAfter(clock, records) == IF records = << >> THEN clock ELSE clock + 1

\* after the loop: save_scores(new_score_records), then
\* save_enrichments(new_enrich_records)
SaveRun ==
    /\ pc = "scoring"
    /\ position = Len(new_indices)
    /\ pc' = "run_done"
    /\ ria_cache' =
          save_enrichments(
              save_scores(ria_cache, new_score_records, cache_clock + 1),
              new_enrich_records, ClockAfter(cache_clock, new_score_records) + 1)
    /\ cache_clock' = ClockAfter(ClockAfter(cache_clock, new_score_records),
                                 new_enrich_records)
    /\ saved_scores' = Recorded(saved_scores, new_score_records, ScoreFields)
    /\ saved_enrichments' = Recorded(saved_enrichments, new_enrich_records, EnrichmentFields)
    /\ UNCHANGED << nonAppVars, df, cached_scores, cached_enrichments, new_indices, position,
                    new_score_records, new_enrich_records, run_count >>

NextDiscovery == StartRun \/ ScoreRow \/ EnrichRaises \/ SaveRun

SpecDiscovery == InitDiscovery /\ [][NextDiscovery]_vars

(***************************************************************************)
(* enrich_contact called twice with the same arguments                     *)
(***************************************************************************)

\* CallState with all_candidates a list of the module that the other call
\* has emptied
CallState_CandidatesCleared ==
    [website_url |-> website_url, hunter_api_key |-> hunter_api_key, pc |-> pc,
     domain |-> domain, all_candidates |-> << >>, best |-> best, found |-> found,
     url |-> url, scrape_domain |-> scrape_domain, fetched_urls |-> fetched_urls,
     discovered_subpages |-> discovered_subpages, visited |-> visited,
     subpage_count |-> subpage_count, all_contacts |-> all_contacts,
     search_requests |-> search_requests, home_requests |-> home_requests,
     sub_requests |-> sub_requests, sub_request_count |-> sub_request_count,
     finder_requests |-> finder_requests, search_response |-> search_response,
     finder_response |-> finder_response, extractions |-> extractions]

\* the variables of the running call
CallState ==
    [website_url |-> website_url, hunter_api_key |-> hunter_api_key, pc |-> pc,
     domain |-> domain, all_candidates |-> all_candidates, best |-> best, found |-> found,
     url |-> url, scrape_domain |-> scrape_domain, fetched_urls |-> fetched_urls,
     discovered_subpages |-> discovered_subpages, visited |-> visited,
     subpage_count |-> subpage_count, all_contacts |-> all_contacts,
     search_requests |-> search_requests, home_requests |-> home_requests,
     sub_requests |-> sub_requests, sub_request_count |-> sub_request_count,
     finder_requests |-> finder_requests, search_response |-> search_response,
     finder_response |-> finder_response, extractions |-> extractions]

\* the variables of the running call are s
CallIs(s) ==
    /\ website_url = s.website_url
    /\ hunter_api_key = s.hunter_api_key
    /\ pc = s.pc
    /\ domain = s.domain
    /\ all_candidates = s.all_candidates
    /\ best = s.best
    /\ found = s.found
    /\ url = s.url
    /\ scrape_domain = s.scrape_domain
    /\ fetched_urls = s.fetched_urls
    /\ discovered_subpages = s.discovered_subpages
    /\ visited = s.visited
    /\ subpage_count = s.subpage_count
    /\ all_contacts = s.all_contacts
    /\ search_requests = s.search_requests
    /\ home_requests = s.home_requests
    /\ sub_requests = s.sub_requests
    /\ sub_request_count = s.sub_request_count
    /\ finder_requests = s.finder_requests
    /\ search_response = s.search_response
    /\ finder_response = s.finder_response
    /\ extractions = s.extractions

\* the call whose variables are s runs next
Resume(s) ==
    /\ website_url' = s.website_url
    /\ hunter_api_key' = s.hunter_api_key
    /\ pc' = s.pc
    /\ domain' = s.domain
    /\ all_candidates' = s.all_candidates
    /\ best' = s.best
    /\ found' = s.found
    /\ url' = s.url
    /\ scrape_domain' = s.scrape_domain
    /\ fetched_urls' = s.fetched_urls
    /\ discovered_subpages' = s.discovered_subpages
    /\ visited' = s.visited
    /\ subpage_count' = s.subpage_count
    /\ all_contacts' = s.all_contacts
    /\ search_requests' = s.search_requests
    /\ home_requests' = s.home_requests
    /\ sub_requests' = s.sub_requests
    /\ sub_request_count' = s.sub_request_count
    /\ finder_requests' = s.finder_requests
    /\ search_response' = s.search_response
    /\ finder_response' = s.finder_response
    /\ extractions' = s.extractions

\* the directory answers the requests of the step as the script says
Scripted(script) ==
    /\ search_response' \in {search_response, script.search_response}
    /\ finder_response' \in {finder_response, script.finder_response}

\* a page with a managing partner of its own
PgMark == [hrefs |-> {}, lines |-> << "Mark Doe, Managing Partner" >>, cards |-> << >>]

\* the sites of the repeated call: one with a chief compliance officer on the
\* homepage, one with a managing partner on each of two subpages
RepeatSites ==
    { Pages({"https://acme.com"}, PgTeam) @@ Pages({"https://acme.com/about"}, PgBio)
          @@ Pages({"https://acme.com/contact"}, PgContact),
      Pages({"https://acme.com"}, PgEmpty) @@ Pages({"https://acme.com/about"}, PgBio)
          @@ Pages({"https://acme.com/contact"}, PgMark) }

InitRepeat ==
    /\ site \in RepeatSites
    /\ \E key \in ApiKeys : CallIs(InitialCall("acme.com", key))
    /\ ExtractIdle
    /\ CacheIdle
    /\ AppIdle
    /\ call_number = 1
    /\ parked = InitialCall(None, None)
    /\ calls = << >>
    /\ stage = "first"

\* a step of the running call; the second call gets the responses the first
\* call got
CallStep == Next /\ (call_number = 2 => Scripted(calls[1]))

\* the first call has returned: what it got and what it returned is kept, and
\* enrich_contact is called again with the same arguments
Repeat ==
    /\ call_number = 1
    /\ pc = "done"
    /\ calls' = << [search_response |-> search_response,
                    finder_response |-> finder_response,
                    sub_requests |-> sub_requests, value |-> ReturnValue] >>
    /\ call_number' = 2
    /\ stage' = "second"
    /\ Resume(InitialCall(website_url, hunter_api_key))
    /\ UNCHANGED << site, parked, extractVars, cacheVars, appVars >>

NextRepeat == CallStep \/ Repeat

SpecRepeat == InitRepeat /\ [][NextRepeat]_vars

(***************************************************************************)
(* Two calls of enrich_contact for two firms, running together             *)
(***************************************************************************)

\* Every variable of a call is a local variable of enrich_contact or of a
\* function it calls; the site is the network both calls read.  One call runs
\* at a time and the other is parked; a switch parks the running call at any
\* of its steps.  Each call first runs alone, then both run together.

\* what a call has returned or raised
OutcomeOf(s) ==
    [pc |-> s.pc,
     value |-> [contact_name |-> s.best.name, contact_email |-> s.best.email,
                contact_title |-> s.best.title, contact_phone |-> s.best.phone,
                contact_linkedin |-> s.best.linkedin]]

\* the call has not run
NoOutcome == [pc |-> "", value |-> EmptyDict]

\* the call has returned or raised
IsOver(s) == s.pc \in {"done", "raised"}

\* a page of the second firm that links to itself
PgAbout ==
    [hrefs |-> {"/about/"}, lines |-> << "Mark Doe, Managing Partner" >>, cards |-> << >>]

\* the network: the site of the first firm answers over http only
PairSite ==
    Pages({"http://acme.com"}, PgContact) @@ Pages({"http://acme.com/team"}, PgTeam)
        @@ Pages({"https://beta.com/about"}, PgAbout)

\* the responses of the directory to the calls
PairSearchResponses ==
    { [status |-> 200, body |-> [data |-> [emails |-> << FullEntry >>]]],
      [status |-> 500, body |-> EmptyDict] }

PairFinderResponse ==
    [status |-> 200,
     body |-> [data |-> [email |-> "info@acme.com", phone_number |-> None,
                         linkedin |-> "linkedin.com/in/found"]]]

\* the call for the first firm
FirstFirmCalls ==
    { [website_url |-> "acme.com", hunter_api_key |-> "key", search_response |-> r,
       finder_response |-> PairFinderResponse, outcome |-> NoOutcome] :
         r \in PairSearchResponses }

\* the call for the second firm: a firm with a website, a firm without
SecondFirmCalls ==
    { [website_url |-> "https://beta.com/about/", hunter_api_key |-> "key",
       search_response |-> [status |-> 500, body |-> EmptyDict],
       finder_response |-> PairFinderResponse, outcome |-> NoOutcome],
      [website_url |-> "nan", hunter_api_key |-> None,
       search_response |-> NoResponse, finder_response |-> NoResponse,
       outcome |-> NoOutcome] }

InitPair ==
    /\ site = PairSite
    /\ \E a \in FirstFirmCalls : \E b \in SecondFirmCalls :
          /\ calls = << a, b >>
          /\ CallIs(InitialCall(a.website_url, a.hunter_api_key))
          /\ parked = InitialCall(b.website_url, b.hunter_api_key)
    /\ call_number = 1
    /\ stage = "alone"
    /\ ExtractIdle
    /\ CacheIdle
    /\ AppIdle

\* a step of the running call, with the responses of its firm
PairStep == Next /\ Scripted(calls[call_number])

\* the call that runs alone is over: its outcome is kept and the other call
\* runs, alone if it has not run, else together with this one from the start
AloneReturns ==
    /\ stage = "alone"
    /\ IsOver(CallState)
    /\ calls' = [calls EXCEPT ![call_number].outcome = OutcomeOf(CallState)]
    /\ Resume(parked)
    /\ parked' = InitialCall(website_url, hunter_api_key)
    /\ call_number' = 3 - call_number
    /\ stage' = IF call_number = 2 THEN "together" ELSE "alone"
    /\ UNCHANGED << site, extractVars, cacheVars, appVars >>

\* the scheduler takes the running call off and lets the other call run
Switch ==
    /\ stage = "together"
    /\ Resume(parked)
    /\ parked' = CallState
    /\ call_number' = 3 - call_number
    /\ UNCHANGED << site, calls, stage, extractVars, cacheVars, appVars >>

NextPair == PairStep \/ AloneReturns \/ Switch

SpecPair == InitPair /\ [][NextPair]_vars

(***************************************************************************)
(* Properties                                                              *)
(***************************************************************************)

\* a request for a page (homepage or subpage) is sent in this step
PageRequestSent ==
    home_requests' # home_requests \/ sub_request_count' # sub_request_count

\* the scraping is going on or has not begun
ScrapingPending == pc \in {"scrape", "retry", "subpages"}

\* C1, as claimed: the domain search request is not issued before the scraping
\* has finished, so once a search has been sent no scraping remains to be done.
C1_SearchAfterScraping == search_requests > 0 => ~ScrapingPending

\* C1, amended: within one call the domain search (when it is made) comes
\* first, the page fetches of the scraping second and the targeted lookup last:
\* the search is sent before every page request and every lookup, and no page
\* request follows the lookup.
C1_SearchScrapeLookup ==
    [][ /\ search_requests' # search_requests =>
              /\ home_requests = <<>>
              /\ sub_request_count = 0
              /\ finder_requests = <<>>
        /\ PageRequestSent =>
              /\ finder_requests = <<>>
              /\ (Truthy(hunter_api_key) /\ extract_domain(website_url) # None
                    => search_requests = 1)
        /\ finder_requests' # finder_requests => ~ScrapingPending ]_vars

C1_Witness ==
    /\ search_requests = 1
    /\ home_requests # <<>>
    /\ sub_request_count > 0
    /\ Len(finder_requests) = 1

\* the tokens of the name of the reconciled contact
BestNameTokens == Split(best.name)

\* C2: with a credential and a domain, when the reconciled contact has a name
\* of at least two tokens and no email, exactly one targeted lookup is sent,
\* for the first token as first name and the last token as last name.
C2_OneLookupForNameWithoutEmail ==
    /\ [](Len(finder_requests) <= 1)
    /\ [][ ( /\ pc = "backfill"
             /\ pc' # "backfill"
             /\ Truthy(hunter_api_key)
             /\ extract_domain(website_url) # None
             /\ Len(BestNameTokens) >= 2
             /\ best.email = "" )
           => finder_requests' =
                 << [domain |-> extract_domain(website_url),
                     first_name |-> BestNameTokens[1],
                     last_name |-> BestNameTokens[Len(BestNameTokens)]] >> ]_vars

C2_Witness ==
    /\ pc = "done"
    /\ Len(finder_requests) = 1
    /\ finder_requests[1].first_name = "Jane"
    /\ finder_requests[1].last_name = "Smith"
    /\ search_requests = 1

\* C3: a targeted lookup is sent at most once per call, and only when there
\* are a credential and a domain and the reconciled contact has no email and
\* a name of at least two tokens.
C3_LookupOnlyWhenNeeded ==
    /\ [](Len(finder_requests) <= 1)
    /\ [][ finder_requests' # finder_requests =>
              /\ best.email = ""
              /\ Len(BestNameTokens) >= 2
              /\ Truthy(hunter_api_key)
              /\ extract_domain(website_url) # None ]_vars

\* the call has returned without a lookup although there are a credential, a
\* domain and a contact without email: its name has one token
C3_Witness ==
    /\ pc = "done"
    /\ finder_requests = <<>>
    /\ Truthy(hunter_api_key)
    /\ domain # None
    /\ best.email = ""
    /\ Len(BestNameTokens) = 1

\* C4, as claimed: no exception reaches the caller of enrich_contact.
C4_NoExceptionReachesCaller == pc # "raised"

\* C7: the lookup changes neither the name nor the title; when it returns an
\* email the contact takes this email, and takes the phone and the social
\* profile of the lookup only where its own is empty; when it returns no email
\* the contact is left as it was.
C7_BackfillFrame ==
    [][ finder_requests' # finder_requests =>
           /\ best'.name = best.name
           /\ best'.title = best.title
           /\ IF pc' = "done" /\ found' # EmptyDict
              THEN /\ best'.email = found'.email
                   /\ best'.phone = IF best.phone # "" THEN best.phone ELSE found'.phone
                   /\ best'.linkedin = IF best.linkedin # "" THEN best.linkedin
                                       ELSE found'.linkedin
              ELSE best' = best ]_vars

\* a lookup that returned an email, a phone and a social profile, for a
\* contact that had a social profile of its own and no phone
C7_Witness ==
    /\ pc = "done"
    /\ Len(finder_requests) = 1
    /\ found # EmptyDict
    /\ best.email = found.email
    /\ found.linkedin # ""
    /\ best.linkedin # found.linkedin
    /\ found.phone = ""

\* an email that matches the grammar and is in none of the exclusion sets
C10_AcceptableEmail(e) == FullMatch(EMAIL_PATTERN, e) /\ ~IsExcludedEmail(e)

\* the candidates are the ones the Reconciler is given
AtReconciler == pc \in {"reconcile", "backfill", "done"}

EmailSet(e) == e # "" /\ e # None

\* C10, as claimed: every candidate that reaches the Reconciler with an email
\* has an acceptable one, whatever its source, and so has the contact.
C10_EveryCandidateEmailAcceptable ==
    AtReconciler =>
        /\ \A i \in 1..Len(all_candidates) :
              EmailSet(all_candidates[i].email)
                 => C10_AcceptableEmail(all_candidates[i].email)
        /\ EmailSet(best.email) => C10_AcceptableEmail(best.email)

\* C10, amended: every scraped candidate that reaches the Reconciler with an
\* email has an acceptable one; the contact's email is acceptable when no
\* directory candidate has an email and no lookup has returned one.
C10_ScrapedEmailAcceptable ==
    AtReconciler =>
        /\ \A i \in 1..Len(all_candidates) :
              /\ all_candidates[i].source = "website"
              /\ EmailSet(all_candidates[i].email)
              => C10_AcceptableEmail(all_candidates[i].email)
        /\ ( /\ EmailSet(best.email)
             /\ found = EmptyDict
             /\ \A i \in 1..Len(all_candidates) :
                   all_candidates[i].source = "hunter.io"
                      => ~EmailSet(all_candidates[i].email) )
           => C10_AcceptableEmail(best.email)

\* a scraped candidate with an email has reached the Reconciler, from a page
\* that also showed excluded addresses
C10_Witness ==
    /\ pc = "done"
    /\ EmailSet(best.email)
    /\ found = EmptyDict
    /\ \E i \in 1..Len(all_candidates) :
          /\ all_candidates[i].source = "website"
          /\ all_candidates[i].email = best.email
    /\ \A i \in 1..Len(all_candidates) : all_candidates[i].source = "website"

\* the indices of the candidates with a name
NamedIndices == {i \in 1..Len(all_candidates) :
                    all_candidates[i].name \notin {"", None}}

\* the rank of a seniority as the claim orders them
C5_SeniorityOrder(seniority) ==
    CASE Lower(OrEmpty(seniority)) = "executive" -> 1
      [] Lower(OrEmpty(seniority)) = "senior" -> 2
      [] Lower(OrEmpty(seniority)) = "management" -> 3
      [] OTHER -> 4

\* candidate c comes strictly before candidate d under the lexicographic key
C5_Before(c, d) ==
    LET tc == _title_rank(c.title)
        td == _title_rank(d.title)
        sc == C5_SeniorityOrder(c.seniority)
        sd == C5_SeniorityOrder(d.seniority)
        dc == IF c.source = "hunter.io" THEN 0 ELSE 1
        dd == IF d.source = "hunter.io" THEN 0 ELSE 1
    IN  \/ tc < td
        \/ tc = td /\ sc < sd
        \/ tc = td /\ sc = sd /\ dc < dd
        \/ tc = td /\ sc = sd /\ dc = dd /\ OrZero(c.confidence) > OrZero(d.confidence)

\* candidates c and d are equal on the whole key
C5_Tied(c, d) == ~C5_Before(c, d) /\ ~C5_Before(d, c)

\* C5: when the Reconciler returns for a list with named candidates, the name
\* and title of the contact are those of the named candidate that no named
\* candidate precedes under the key (title-priority rank, seniority rank,
\* Directory before Scraped, confidence descending) and that comes before
\* every named candidate equal to it on the key.
C5_BestNamedIsMinimal ==
    (pc = "backfill" /\ NamedIndices # {}) =>
        \E i \in NamedIndices :
            /\ \A j \in NamedIndices :
                  /\ ~C5_Before(all_candidates[j], all_candidates[i])
                  /\ (j < i => C5_Before(all_candidates[i], all_candidates[j]))
            /\ best.name = Strip(all_candidates[i].name)
            /\ best.title = Strip(all_candidates[i].title)

\* two candidates with different names are equal on the key, one candidate
\* comes after them, and the contact is the earlier of the two
C5_Witness ==
    /\ pc = "backfill"
    /\ Len(all_candidates) = 3
    /\ all_candidates[1].name # all_candidates[2].name
    /\ NamedIndices = {1, 2, 3}
    /\ C5_Tied(all_candidates[1], all_candidates[2])
    /\ C5_Before(all_candidates[2], all_candidates[3])
    /\ best.name = all_candidates[1].name

\* the candidate has an email
HasEmail(c) == c.email # None /\ Strip(c.email) # ""

\* the indices of the candidates with an email
EmailIndices == {i \in 1..Len(all_candidates) : HasEmail(all_candidates[i])}

\* the least index of a non-empty set of indices
First(S) == CHOOSE i \in S : \A j \in S : i <= j

\* the email of the scan that looks at no name: the first email, or the first
\* verified one after it when the first is not verified
C6_FirstOrVerified ==
    IF EmailIndices = {} THEN ""
    ELSE LET first == First(EmailIndices)
             later == {i \in EmailIndices :
                          i > first /\ all_candidates[i].verified = "valid"}
         IN  IF all_candidates[first].verified # "valid" /\ later # {}
             THEN Strip(all_candidates[First(later)].email)
             ELSE Strip(all_candidates[first].email)

\* C6, as claimed: the contact's email is the email of the chosen best-named
\* candidate when it has one, and otherwise the first email of the list in
\* its order, replaced by a later verified one when the first is not verified.
C6_ChosenEmailOrFirst ==
    (pc = "backfill") =>
        best.email = IF HasBestNamed(all_candidates) /\ HasEmail(BestNamed(all_candidates))
                     THEN Strip(BestNamed(all_candidates).email)
                     ELSE C6_FirstOrVerified

\* the indices of the candidates that have an email and the name of the
\* chosen best-named candidate
SameNameEmailIndices ==
    {i \in EmailIndices : /\ HasBestNamed(all_candidates)
                          /\ all_candidates[i].name = BestNamed(all_candidates).name}

\* C6, amended: the contact's email is the email of the chosen best-named
\* candidate when it has one; otherwise the email of the first candidate in
\* the list that has the same name as the chosen one and an email, when there
\* is one; otherwise the first email of the list in its order, replaced by a
\* later verified one when the first is not verified.
C6_ChosenOrSameNameOrFirst ==
    (pc = "backfill") =>
        best.email = IF HasBestNamed(all_candidates) /\ HasEmail(BestNamed(all_candidates))
                     THEN Strip(BestNamed(all_candidates).email)
                     ELSE IF SameNameEmailIndices # {}
                     THEN Strip(all_candidates[First(SameNameEmailIndices)].email)
                     ELSE C6_FirstOrVerified

\* the chosen candidate has no email, an earlier candidate has one, and the
\* contact has the email of a later candidate with the name of the chosen one
C6_Witness ==
    /\ pc = "backfill"
    /\ HasBestNamed(all_candidates)
    /\ ~HasEmail(BestNamed(all_candidates))
    /\ SameNameEmailIndices # {}
    /\ First(EmailIndices) < First(SameNameEmailIndices)
    /\ best.email = all_candidates[First(SameNameEmailIndices)].email
    /\ best.email # C6_FirstOrVerified

\* the subpage requests that were answered with a page
AnsweredSubpages == {u \in sub_requests : _fetch_page_soup(u) # NoneDict}

\* no url is requested twice as a subpage, and the homepage url is not
\* requested as a subpage
C8_DistinctRequests ==
    /\ Cardinality(sub_requests) = sub_request_count
    /\ RStripSlash(url) \notin sub_requests

HomepageSettled == pc \notin {"scrape", "retry"}

\* the url with the other of the schemes http and https
AlternateScheme(u) ==
    IF StartsWith(u, "https://") THEN "http://" \o From(u, 8)
    ELSE IF StartsWith(u, "http://") THEN "https://" \o From(u, 7)
    ELSE u

\* C9, as claimed: when the first fetch of the homepage fails, the homepage is
\* fetched exactly once more with the alternate scheme, whichever scheme the
\* first fetch used, and the crawler gives up only when that fetch fails too.
C9_RetryWhicheverScheme ==
    (HomepageSettled /\ home_requests # <<>>
        /\ _fetch_page_soup(home_requests[1]) = NoneDict) =>
        /\ Len(home_requests) = 2
        /\ home_requests[2] = AlternateScheme(home_requests[1])
        /\ (fetched_urls = {} <=> _fetch_page_soup(home_requests[2]) = NoneDict)

\* C9, amended: when the first fetch of the homepage fails and its url starts
\* with https://, the homepage is fetched exactly once more, with http:// in
\* place of https://, and the crawler gives up only when that fetch fails too;
\* when the first fetch fails for any other url the crawler gives up at once.
\* The homepage is never requested more than twice, nor twice when the first
\* fetch succeeds.
C9_RetryHttpsOnce ==
    (HomepageSettled /\ home_requests # <<>>) =>
        LET first == home_requests[1]
            failed == _fetch_page_soup(first) = NoneDict
        IN  /\ Len(home_requests) <= 2
            /\ Len(home_requests) = 2 <=> (failed /\ StartsWith(first, "https://"))
            /\ Len(home_requests) = 2 =>
                  /\ home_requests[2] = "http://" \o From(first, 8)
                  /\ (fetched_urls = {} <=> _fetch_page_soup(home_requests[2]) = NoneDict)
            /\ Len(home_requests) = 1 => (fetched_urls = {} <=> failed)

\* the https:// fetch failed and the http:// fetch gave the homepage
C9_Witness ==
    /\ pc = "subpages"
    /\ Len(home_requests) = 2
    /\ StartsWith(home_requests[1], "https://")
    /\ home_requests[2] = "http://acme.com"
    /\ fetched_urls = {"http://acme.com"}

\* a name the NameValidator accepts, in the words of the claim: 4 to 50
\* characters, at least two tokens, no corporate-suffix token and no
\* false-positive token
C11_AcceptedName(name) ==
    LET tokens == Split(Upper(name))
    IN  /\ Len(name) \in 4..50
        /\ Len(tokens) >= 2
        /\ \A i \in 1..Len(tokens) : tokens[i] \notin CORP_WORDS \cup FALSE_NAME_WORDS

NameSet(name) == name # "" /\ name # None

\* C11, as claimed: every candidate that reaches the Reconciler with a name
\* has a name the NameValidator accepts, whatever its source, and so has the
\* contact.
C11_EveryCandidateNameAccepted ==
    AtReconciler =>
        /\ \A i \in 1..Len(all_candidates) :
              NameSet(all_candidates[i].name) => C11_AcceptedName(all_candidates[i].name)
        /\ NameSet(best.name) => C11_AcceptedName(best.name)

\* C11, amended: every scraped candidate that reaches the Reconciler with a
\* name has a name the NameValidator accepts; the contact's name is accepted
\* when no directory candidate has a name.
C11_ScrapedNameAccepted ==
    AtReconciler =>
        /\ \A i \in 1..Len(all_candidates) :
              /\ all_candidates[i].source = "website"
              /\ NameSet(all_candidates[i].name)
              => C11_AcceptedName(all_candidates[i].name)
        /\ ( /\ NameSet(best.name)
             /\ \A i \in 1..Len(all_candidates) :
                   all_candidates[i].source = "hunter.io"
                      => ~NameSet(all_candidates[i].name) )
           => C11_AcceptedName(best.name)

\* a scraped name is the contact's name, from a page whose strategies also
\* captured a name the NameValidator rejects
C11_Witness ==
    /\ pc = "done"
    /\ best.name = "Jane Smith"
    /\ \A i \in 1..Len(all_candidates) : all_candidates[i].source = "website"
    /\ \E u \in DOMAIN site : \E k \in 1..Len(site[u].lines) :
          /\ SameLineMatch(site[u].lines[k]).name = "Wealth Management"
          /\ u \in fetched_urls

\* the phrase p occurs in t as a word or phrase: not inside a longer word
ContainsPhrase(t, p) ==
    \E k \in 1..(Len(t) - Len(p) + 1) :
        /\ SubSeq(t, k, k + Len(p) - 1) = p
        /\ k = 1 \/ ~IsLetter(CharAt(t, k - 1))
        /\ k + Len(p) - 1 = Len(t) \/ ~IsLetter(CharAt(t, k + Len(p)))

\* the group of a role of the list: 1 compliance officer, 2 principal, founder
\* and executive roles, 3 director and partner, 4 advisor
C12_GroupOfRole(i) ==
    IF i <= 2 THEN 1 ELSE IF i <= 15 THEN 2 ELSE IF i <= 18 THEN 3 ELSE 4

\* the roles of the list a title contains as a word or phrase
C12_RolesIn(title) ==
    {i \in 1..Len(TITLE_PRIORITY) : ContainsPhrase(Lower(title), TITLE_PRIORITY[i])}

\* the group of a title: that of its first role in the list, or 5 when it
\* contains no role of the list
C12_Group(title) ==
    IF C12_RolesIn(title) = {} THEN 5 ELSE C12_GroupOfRole(First(C12_RolesIn(title)))

\* C12, as claimed: the rank of a title follows the groups of the list, a
\* title without a role of the list as a word or phrase has the lowest rank,
\* and the Reconciler does not choose a candidate when a named candidate of an
\* earlier group is in the list.
C12_RankFollowsRoleGroups ==
    (pc = "backfill") =>
        \A i, j \in NamedIndices :
            C12_Group(all_candidates[i].title) < C12_Group(all_candidates[j].title) =>
                /\ _title_rank(all_candidates[i].title) < _title_rank(all_candidates[j].title)
                /\ ~ ( /\ best.name = Strip(all_candidates[j].name)
                       /\ best.title = Strip(all_candidates[j].title) )

\* the firm has no website: the value is missing, empty, 'nan' or 'none'
C13_NoWebsite ==
    \/ website_url = None
    \/ Strip(website_url) = ""
    \/ Lower(Strip(website_url)) \in {"nan", "none"}

\* no request of any kind has been sent
NoNetworkRequest ==
    /\ search_requests = 0
    /\ home_requests = <<>>
    /\ sub_request_count = 0
    /\ finder_requests = <<>>

\* the contact with its five fields empty
EmptyContact ==
    [contact_name |-> "", contact_email |-> "", contact_title |-> "",
     contact_phone |-> "", contact_linkedin |-> ""]

\* C13: for a firm without a website no request is ever sent (no page fetch,
\* no domain search, no lookup), no exception is raised, and the contact
\* returned has its five fields empty, with or without a credential.
C13_NoWebsiteNoRequest ==
    C13_NoWebsite =>
        /\ NoNetworkRequest
        /\ pc # "raised"
        /\ pc = "done" => ReturnValue = EmptyContact

\* a run for a firm without a website has returned, with a credential
C13_Witness ==
    /\ pc = "done"
    /\ website_url = "nan"
    /\ Truthy(hunter_api_key)
    /\ DOMAIN site # {}
    /\ ReturnValue = EmptyContact

\* the website is not blank and its host name has no dot: it yields no Domain
C14_NoValidDomain ==
    /\ ~C13_NoWebsite
    /\ ~Contains(urlparse(NormalizedUrl(website_url)).netloc, ".")

\* C14: for a website that is not blank and yields no valid Domain, no
\* directory request (domain search or lookup) is ever sent, with or without
\* a credential, and the homepage is fetched from the full url: the first
\* page request is for the website string with https:// in front of it.
C14_NoDomainNoDirectory ==
    C14_NoValidDomain =>
        /\ search_requests = 0
        /\ finder_requests = <<>>
        /\ pc \notin {"search", "scrape", "raised"} =>
              /\ home_requests # <<>>
              /\ home_requests[1] = "https://" \o website_url

\* a run with a credential for a website without a Domain has returned a
\* contact scraped from the homepage
C14_Witness ==
    /\ pc = "done"
    /\ website_url = "localhost"
    /\ Truthy(hunter_api_key)
    /\ fetched_urls = {"https://localhost"}
    /\ best.email # ""

\* a response that is not a success: a status other than 200, or a transport
\* error
Failed(resp) == resp.status # 200

\* C15: each directory operation sends a single request; a domain search that
\* ends in a status other than 200 (401, 429, 500) or in a transport error
\* adds no candidate and the call goes on to the scraping, so the Reconciler
\* is given the scraped candidates alone; a lookup that ends so leaves the
\* contact as it was and the call returns it; the account status gives the
\* empty result for every such response, with its single request.
C15_FailedDirectoryCallGivesEmpty ==
    /\ [](search_requests <= 1 /\ Len(finder_requests) <= 1)
    /\ [][ (search_requests' # search_requests /\ Failed(search_response')) =>
              /\ search_requests' = search_requests + 1
              /\ all_candidates' = all_candidates
              /\ pc' = "scrape" ]_vars
    /\ []( (search_response # NoResponse /\ Failed(search_response) /\ AtReconciler)
              => all_candidates = all_contacts )
    /\ [][ (finder_requests' # finder_requests /\ Failed(finder_response')) =>
              /\ Len(finder_requests') = Len(finder_requests) + 1
              /\ best' = best
              /\ pc' = "done" ]_vars
    /\ [](\A resp \in AccountResponses :
              Failed(resp) => /\ get_hunter_account_info("key", resp) = EmptyDict
                              /\ AccountInfoRequests("key") = 1)

\* the domain search was refused for its rate limit, the scraping found a
\* name without an email, the lookup failed too, and the call has returned
\* the scraped contact
C15_Witness ==
    /\ pc = "done"
    /\ search_response.status = 429
    /\ finder_response.status = TransportError
    /\ Len(finder_requests) = 1
    /\ best.name = "Jane Smith"
    /\ best.email = ""

\* the domain search has returned and the scraping has added nothing yet:
\* all_candidates is the list the domain search returned
SearchReturned ==
    /\ search_requests = 1
    /\ pc \in {"scrape", "retry", "subpages"}

\* the records of the response to the domain search
SearchRecords ==
    IF search_response.status # 200 THEN <<>>
    ELSE DictGet(DictGet(search_response.body, "data", EmptyDict), "emails", <<>>)

\* every candidate of the list has the source Directory
AllFromDirectory == \A i \in 1..Len(all_candidates) : all_candidates[i].source = "hunter.io"

\* C16, as claimed: whatever the response of the directory service, the
\* domain search returns at most 10 candidates, each with source Directory.
C16_AtMostTenCandidates == SearchReturned => (Len(all_candidates) <= 10 /\ AllFromDirectory)

\* C16, amended: the domain search asks the service for 10 records and
\* returns one candidate for each record of the response, each with source
\* Directory: at most 10 candidates when the service returns at most the
\* number of records it was asked for, and more when it returns more.
C16_OneCandidatePerRecord ==
    SearchReturned =>
        /\ Len(all_candidates) = Len(SearchRecords)
        /\ AllFromDirectory
        /\ Len(SearchRecords) <= SearchLimit => Len(all_candidates) <= 10

\* the service returned 11 records and the domain search 11 candidates
C16_Witness ==
    /\ SearchReturned
    /\ Len(SearchRecords) = 11
    /\ Len(all_candidates) = 11

\* the homepage is unreachable: the crawler is done with the homepage and no
\* url it requested for it answers
HomepageUnreachable ==
    /\ HomepageSettled
    /\ home_requests # <<>>
    /\ \A k \in 1..Len(home_requests) : RStripSlash(home_requests[k]) \notin DOMAIN site

\* C17: when every fetch of the homepage has failed, the crawler has returned
\* the empty list without raising, has requested no subpage and has run no
\* extraction.
C17_UnreachableHomepageGivesNothing ==
    HomepageUnreachable =>
        /\ pc = "reconcile"
        /\ all_contacts = <<>>
        /\ all_candidates = <<>>
        /\ sub_request_count = 0
        /\ sub_requests = {}
        /\ extractions = 0

\* both fetches of the homepage failed, on a site that has other pages
C17_Witness ==
    /\ HomepageUnreachable
    /\ Len(home_requests) = 2
    /\ DOMAIN site # {}
    /\ pc = "reconcile"

\* the index of the candidate whose email the scan that looks at no name
\* chooses: the first with an email, or the first verified one after it when
\* the first is not verified
C18_EmailIndex ==
    LET first == First(EmailIndices)
        later == {i \in EmailIndices :
                     i > first /\ all_candidates[i].verified = "valid"}
    IN  IF all_candidates[first].verified # "valid" /\ later # {}
        THEN First(later) ELSE first

\* the value of field f the supplemental scan finds: that of the candidate of
\* the best email when it has one, or else the first one of the list
C18_Supplemental(f) ==
    LET own == all_candidates[C18_EmailIndex][f]
        having == {i \in 1..Len(all_candidates) : all_candidates[i][f] \notin {"", None}}
    IN  IF own \notin {"", None} THEN own
        ELSE IF having = {} THEN "" ELSE all_candidates[First(having)][f]

\* C18: when the Reconciler returns for a list without a named candidate, the
\* name and the title of the contact are empty; when some candidate has an
\* email the contact has the best email, with the phone and the social profile
\* of the supplemental scan; when the list is empty or no candidate has an
\* email, the five fields of the contact are empty.
C18_NoNamedCandidate ==
    (pc = "backfill" /\ NamedIndices = {}) =>
        /\ best.name = ""
        /\ best.title = ""
        /\ IF EmailIndices = {}
           THEN best = [name |-> "", email |-> "", title |-> "", phone |-> "",
                        linkedin |-> ""]
           ELSE /\ best.email = Strip(all_candidates[C18_EmailIndex].email)
                /\ best.phone = C18_Supplemental("phone")
                /\ best.linkedin = C18_Supplemental("linkedin")

\* no candidate has a name, and the contact has the email and the phone of the
\* second candidate and the social profile of the first
C18_Witness ==
    /\ pc = "backfill"
    /\ NamedIndices = {}
    /\ Len(all_candidates) >= 2
    /\ best.email = all_candidates[2].email
    /\ best.phone = all_candidates[2].phone
    /\ all_candidates[1].phone \notin {"", best.phone}
    /\ best.linkedin = all_candidates[1].linkedin
    /\ best.linkedin # ""

\* C19, as claimed: the canonicalization is idempotent: a Domain that
\* extract_domain has returned is returned unchanged when it is given to
\* extract_domain again.
C19_ExtractDomainIdempotent ==
    (pc = "extracted" /\ domain # None) => extract_domain(domain) = domain

\* the website string without its scheme, whatever the case of the scheme
C20_WithoutScheme(s) ==
    IF StartsWith(Lower(s), "https://") THEN From(s, 8)
    ELSE IF StartsWith(Lower(s), "http://") THEN From(s, 7)
    ELSE s

\* the host name of a website string, in lower case and without a leading
\* "www."
C20_BareHost(s) ==
    LET rest == C20_WithoutScheme(Strip(s))
        host == Lower(SubSeq(rest, 1, FirstStop(rest, "/") - 1))
    IN  IF StartsWith(host, "www.") THEN From(host, 4) ELSE host

\* C20, as claimed: for every website string, whatever the case of its scheme
\* and host, extract_domain returns the host name in lower case without the
\* scheme and the leading "www.", and None exactly when this host name has no
\* dot.
C20_BareHostWhateverCase ==
    (pc = "extracted" /\ ~C13_NoWebsite) =>
        domain = IF Contains(C20_BareHost(website_url), ".")
                 THEN C20_BareHost(website_url) ELSE None

\* the extraction of the document has returned
Extracted == pc = "contacts"

\* the generic role words: info, support, admin, sales, contact, ...
C21_RoleWords == {SubSeq(p, 1, Len(p) - 1) : p \in EXCLUDED_EMAIL_PREFIXES}

\* C21, as claimed: the EmailHarvester returns no address whose domain is in
\* the exclusion set and no address whose local part starts with a generic
\* role word.
C21_NoRolePrefixedAddress ==
    Extracted =>
        \A i \in 1..Len(page_emails) :
            /\ EmailDomainPart(page_emails[i]) \notin EXCLUDED_EMAIL_DOMAINS
            /\ \A w \in C21_RoleWords : ~StartsWith(EmailLocalPart(page_emails[i]), w)

\* C21, amended: the EmailHarvester returns no address whose domain is in the
\* exclusion set and no address whose local part is a generic role word.
C21_NoRoleAddress ==
    Extracted =>
        \A i \in 1..Len(page_emails) :
            /\ EmailDomainPart(page_emails[i]) \notin EXCLUDED_EMAIL_DOMAINS
            /\ EmailLocalPart(page_emails[i]) \notin C21_RoleWords

\* the harvest of a document that holds an address at an excluded domain, a
\* role address in its text and one in a link has returned other addresses
C21_Witness ==
    /\ Extracted
    /\ "amy@sec.gov" \in TextWords(page_soup)
    /\ "infodesk@acme.com" \in TextWords(page_soup)
    /\ "mailto:contact@acme.com" \in page_soup.hrefs
    /\ Len(page_emails) >= 2

\* the domain part of the address is the firm's Domain
C22_AtDomain(email) == EmailDomainPart(email) = page_domain

\* C22: the list the EmailHarvester returns for a firm's Domain has every
\* address whose domain part is the Domain before every address whose domain
\* part is not, and each of the two groups in ascending order.
C22_DomainFirstThenAscending ==
    (Extracted /\ page_domain # None) =>
        \A i \in 1..Len(page_emails) : \A j \in (i + 1)..Len(page_emails) :
            /\ C22_AtDomain(page_emails[j]) => C22_AtDomain(page_emails[i])
            /\ C22_AtDomain(page_emails[i]) = C22_AtDomain(page_emails[j])
                  => StrLess(page_emails[i], page_emails[j])

\* the capitalized two-token names of the documents
C24_Names == {"Mark Doe", "Jane Smith", "Ann Lee", "Wealth Management"}

\* the separators, with and without spaces around them
C24_Separators == {",", ", ", " , ", "|", " | ", "-", " - "}

\* the known title phrases
C24_TitlePhrases ==
    { "Chief Compliance Officer", "Compliance Officer", "CCO", "Principal",
      "Managing Member", "Managing Partner", "Managing Director", "Founder", "Co-Founder",
      "CEO", "President", "Owner", "COO", "CFO", "Partner", "Director", "Chief Executive",
      "Chief Operating", "Chief Financial", "Advisor", "Adviser" }

\* Strategy B yielded a candidate with the name and the title, whatever the
\* case of the letters of the title
C24_Yielded(name, title) ==
    \E i \in 1..Len(page_strategy.B) :
        /\ page_strategy.B[i].name = name
        /\ Lower(page_strategy.B[i].title) = Lower(title)

C25_ClaimedWindow == 10

\* the first non-blank line among the C25_ClaimedWindow lines after line i, 0
\* when they are all blank
C25_FirstNonBlankOfTen(stripped, i) ==
    MinOr0({j \in (i + 1)..(IF i + C25_ClaimedWindow < Len(stripped)
                            THEN i + C25_ClaimedWindow ELSE Len(stripped)) :
               stripped[j] # ""})

\* what the claim has Strategy A yield for line i
C25_Claimed(stripped, i) ==
    IF \/ stripped[i] = ""
       \/ Len(stripped[i]) > TitleMaxLen
       \/ ~IsStandaloneTitle(stripped[i])
    THEN << >>
    ELSE BioContact(stripped, C25_FirstNonBlankOfTen(stripped, i), stripped[i])

\* C25, as claimed: for each standalone title line Strategy A looks at the 10
\* lines that follow it, examines the first non-blank one of them, and yields
\* exactly one candidate with the title of the title line when that line
\* opens with a name the NameValidator accepts followed by a bio-opening cue,
\* and no candidate otherwise.
C25_TenFollowingLines ==
    Extracted =>
        page_strategy.A =
            ConcatAll([i \in 1..Len(page_soup.lines) |->
                          C25_Claimed(StrippedLines(page_soup), i)])

\* the result list of the page after the three strategies
C27_ResultList == page_strategy.A \o page_strategy.B \o page_strategy.C

\* C27, as claimed: within one page Strategy C never appends a candidate
\* whose name equals the name of a candidate already in the page's result
\* list (found earlier by Strategy A, Strategy B or Strategy C itself).
C27_NoRepeatedName ==
    Extracted =>
        \A k \in 1..Len(page_strategy.C) :
            \A i \in 1..(Len(page_strategy.A) + Len(page_strategy.B) + k - 1) :
                C27_ResultList[i].name
                    # C27_ResultList[Len(page_strategy.A) + Len(page_strategy.B) + k].name

\* the candidates the three strategies found on the page
C28_Named == page_strategy.A \o page_strategy.B \o page_strategy.C

\* a token of the name longer than 2 characters is a substring of the local
\* part of the email, letter case apart
C28_TokenInLocalPart(name, email) ==
    \E token \in SeqToSet(Split(Lower(name))) :
        Len(token) > 2 /\ Contains(Lower(EmailLocalPart(email)), token)

\* the positions of the harvested emails whose local part holds a token of
\* the name
C28_Hits(name) ==
    {i \in 1..Len(page_emails) : C28_TokenInLocalPart(name, page_emails[i])}

\* min(3, n) for n harvested emails
C28_NamelessCount == IF Len(page_emails) < 3 THEN Len(page_emails) ELSE 3

\* C28: for one page the extractor produces nameless candidates only when the
\* harvest found at least one email and no strategy found a named candidate;
\* it then returns exactly min(3, n) nameless candidates carrying the first
\* emails in harvested order. In every other case each returned candidate has
\* a name, and its email is the first harvested email whose local part holds
\* a token of the name longer than 2 characters, or is empty when there is no
\* such email.
C28_NamelessOnlyWithoutNames ==
    Extracted =>
        IF C28_Named = << >>
        THEN /\ Len(page_contacts) = C28_NamelessCount
             /\ \A i \in 1..Len(page_contacts) :
                   /\ page_contacts[i].name = ""
                   /\ page_contacts[i].email = page_emails[i]
        ELSE /\ Len(page_contacts) = Len(C28_Named)
             /\ \A i \in 1..Len(page_contacts) :
                   /\ page_contacts[i].name = C28_Named[i].name
                   /\ page_contacts[i].name # ""
                   /\ IF C28_Hits(page_contacts[i].name) = {}
                      THEN page_contacts[i].email = ""
                      ELSE \E h \in C28_Hits(page_contacts[i].name) :
                              /\ \A g \in C28_Hits(page_contacts[i].name) : h <= g
                              /\ page_contacts[i].email = page_emails[h]

\* a page with a named candidate that got a harvested email which is not the
\* first of the list
C28_Witness ==
    /\ Extracted
    /\ Len(page_emails) > 1
    /\ \E i \in 1..Len(page_contacts) :
          /\ page_contacts[i].name # ""
          /\ page_contacts[i].email # ""
          /\ page_contacts[i].email # page_emails[1]

\* the requested crds that occurred in a save of the kind, each with the
\* fields saved last
C26_Requested(saved, crd_list) ==
    [crd \in SeqToSet(crd_list) \cap DOMAIN saved |-> saved[crd]]

\* every crd list made of the crds of the model, of length 0 to 2
C26_CrdLists ==
    {<< >>} \cup {<< c >> : c \in SavedCrds \cup {UnsavedCrd}}
            \cup {<< c, d >> : c, d \in SavedCrds \cup {UnsavedCrd}}

\* the lookups return the requested crds that were saved, with the fields
\* saved last
C26_LookupsReturnLastSaved ==
    /\ \A crd_list \in C26_CrdLists :
          /\ lookup_enrichments(ria_cache, crd_list)
                = C26_Requested(saved_enrichments, crd_list)
          /\ lookup_scores(ria_cache, crd_list) = C26_Requested(saved_scores, crd_list)
    /\ cache_op = "lookup_enrichments"
          => cache_result = C26_Requested(saved_enrichments, cache_request)
    /\ cache_op = "lookup_scores"
          => cache_result = C26_Requested(saved_scores, cache_request)

\* a save of one kind leaves what the lookup of the other kind returns
C26_OtherKindUntouched ==
    /\ cache_op' = "save_scores"
          => \A crd_list \in C26_CrdLists :
                lookup_enrichments(ria_cache', crd_list)
                   = lookup_enrichments(ria_cache, crd_list)
    /\ cache_op' = "save_enrichments"
          => \A crd_list \in C26_CrdLists :
                lookup_scores(ria_cache', crd_list) = lookup_scores(ria_cache, crd_list)

\* C26: after any sequence of save_scores and save_enrichments batches,
\* lookup_enrichments returns exactly the requested crds that occurred in a
\* save_enrichments batch, each with the contact fields of the most recent
\* such batch, and lookup_scores returns exactly the requested crds that
\* occurred in a save_scores batch, each with the score of the most recent
\* such batch; a save of one kind never adds, removes or changes an entry
\* returned by the lookup of the other kind.
C26_LookupsFollowSaves == [](C26_LookupsReturnLastSaved) /\ [][C26_OtherKindUntouched]_vars

\* a crd whose score and contact were both saved, the score twice, is looked
\* up together with a crd that has a score only
C26_Witness ==
    /\ cache_op = "lookup_enrichments"
    /\ cache_request = << 102, 101 >>
    /\ DOMAIN cache_result = {101}
    /\ DOMAIN saved_scores = {101, 102}
    /\ ria_cache[101].scored_at > ria_cache[101].enriched_at
    /\ ria_cache[101].contact_phone = ""

\* the firm of the row has an enrichment record in the cache
C29_HasEnrichment(row) ==
    _safe_crd(row.CRD) \in DOMAIN lookup_enrichments(ria_cache, << _safe_crd(row.CRD) >>)

\* C29, as claimed: after a discovery run completes, every listed firm that
\* has a valid CRD and a website has an enrichment record in the cache, one
\* that existed before the run or one created by the run, also when its fit
\* score was cached by an earlier run.
C29_ListedFirmEnriched ==
    pc = "run_done" =>
        \A i \in 1..Len(df) :
            (_safe_crd(df[i].CRD) # NoneInt /\ has_website(df[i].Website))
                => C29_HasEnrichment(df[i])

\* C30, as claimed: two calls with the same website and credential, which
\* receive the same response for every url and every directory request,
\* fetch the same subpages and return the same contact, whatever the order in
\* which the sets of discovered subpages and of harvested emails are iterated.
C30_SameCallSameContact ==
    (call_number = 2 /\ pc = "done") =>
        /\ sub_requests = calls[1].sub_requests
        /\ ReturnValue = calls[1].value

\* a call that is over while both run together has the outcome it had alone
C23_SameAsAlone ==
    stage = "together" =>
        /\ IsOver(CallState) => OutcomeOf(CallState) = calls[call_number].outcome
        /\ IsOver(parked) => OutcomeOf(parked) = calls[3 - call_number].outcome

\* a step of the running call leaves the variables of the parked call, the
\* network and the arguments of both calls as they are
C23_NothingShared ==
    (call_number' = call_number /\ stage' = stage)
        => (parked' = parked /\ site' = site /\ calls' = calls)

====
